---- MODULE Spec2Model ----
(***************************************************************************)
(* Model of the deterministic core of talk2data:                           *)
(*   - SchemaParser join-path resolution (src/src/schema_parser.py)        *)
(*   - SQLValidator rule checks          (src/src/sql_validator.py)        *)
(*   - SchemaParser table selection      (src/src/schema_parser.py,        *)
(*                                        src/src/llm_table_selector.py)   *)
(*   - generate_multi_table_sql          (src/src/llm_sql_generator.py)    *)
(*   - SchemaParser checks and loading   (src/src/schema_parser.py)        *)
(*   - extract_and_convert_dates         (src/src/date_converter.py)       *)
(*   - generate_sql_with_validation      (src/src/llm_sql_generator.py)    *)
(*   - validate_and_retry                (src/src/llm_query_selector.py)   *)
(***************************************************************************)
EXTENDS Integers, Sequences, FiniteSets, TLC

VARIABLES
    \* ---- SchemaParser instance (self.tables, self.relationships)
    tables,             \* table name -> table entry (its "role")
    relationships,      \* declared relationships, in declaration order
    \* ---- one call of find_join_path / _find_relationship / to_sql
    pc,                 \* position inside the call
    required_tables,    \* the argument of find_join_path
    remaining_tables,
    connected_tables,
    join_path,          \* JoinPath under construction
    found_connection,
    idx,                \* position of the for loop over remaining_tables[:]
    result,             \* <<>> is None, <<jp>> is a returned JoinPath
    fr_args,            \* arguments of a direct _find_relationship call
    fr_result,          \* <<>> is None, <<rel>> is a returned relationship
    sql_lines,          \* JoinPath.to_sql() of the returned path
    \* ---- one call of SQLValidator.validate
    vpc,                \* position inside validate
    sql,                \* the argument: a sequence of characters
    errors,             \* the local list of collected violations
    vresult,            \* <<>> before the return, <<dict>> the returned dict
    schema,             \* self.schema of the validator: <<>> is None
    \* ---- one call of get_relevant_tables / generate_multi_table_sql
    gpc,                \* position inside the call
    calls,              \* the collaborators invoked so far, in order
    gr_args,            \* <<>> or <<actual_table_names>> of get_relevant_tables
    llm_tables,         \* <<>> or <<what select_tables returned>>
    gr_result,          \* <<>> or <<outcome of get_relevant_tables>>
    relevant_tables,    \* local of generate_multi_table_sql
    response,           \* <<>> or <<content of the SQL completion, stripped>>
    sql_query,          \* local of generate_multi_table_sql: the LLM's text
    gresult,            \* <<>> or <<outcome of generate_multi_table_sql>>
    \* ---- one call of validate_selected_tables / validate_sql_columns
    vs_args,            \* <<>> or <<selected_tables>>
    vs_result,          \* <<>> or <<(is_valid, error_message)>>
    vc_args,            \* <<>> or <<sql_query>>
    vc_result,          \* <<>> or <<(is_valid, invalid_columns)>>
    summary,            \* <<>> or <<what get_schema_summary returned>>
    \* ---- get_schema_parser / load_star_schema
    schema_file,        \* the document stored in config/<schema_name>.json
    parsers,            \* the instances get_schema_parser returned, in order
    loads,              \* how often the schema file was read and parsed
    \* ---- extract_and_convert_dates
    original_text,      \* the argument of the latest call
    converted,          \* <<>> or <<the returned text>>
    passes,             \* how often the function was applied in a row
    \* ---- one call of generate_sql_with_validation
    rpc,                \* position inside the call
    max_retries,        \* the argument max_retries
    confidence_threshold, \* the argument, in hundredths
    attempt,            \* the loop variable
    attempts,           \* what each attempt produced, in order
    previous_sql,       \* <<>> while unbound, <<sql>> once assigned
    validation_errors,  \* <<>> while unbound, <<feedback>> once assigned
    rresult,            \* <<>> or <<(sql_query, confidence, validation_passed)>>
    \* ---- one call of validate_and_retry
    qpc,                \* position inside the call
    q_args,             \* <<>> or <<[prompt, max_retries]>>
    prompt,             \* the local prompt: what the next LLM call sends
    q_attempt,          \* the loop variable
    last_error,         \* <<>> is None, <<e>> the latest exception
    llm_calls,          \* the calls of call_llm so far: prompt and outcome
    qresult             \* <<>> or <<outcome of validate_and_retry>>

join_vars == <<tables, relationships, pc, required_tables, remaining_tables,
               connected_tables, join_path, found_connection, idx, result,
               fr_args, fr_result, sql_lines>>

val_vars == <<vpc, sql, errors, vresult, schema>>

gen_vars == <<gpc, calls, gr_args, llm_tables, gr_result, relevant_tables,
              response, sql_query, gresult>>

chk_vars == <<vs_args, vs_result, vc_args, vc_result, summary>>

load_vars == <<schema_file, parsers, loads>>

date_vars == <<original_text, converted, passes>>

retry_vars == <<rpc, max_retries, confidence_threshold, attempt, attempts,
                previous_sql, validation_errors, rresult>>

query_vars == <<qpc, q_args, prompt, q_attempt, last_error, llm_calls,
                qresult>>

ext_vars == <<chk_vars, load_vars, date_vars, retry_vars, query_vars>>

vars == <<join_vars, val_vars, gen_vars, ext_vars>>

-----------------------------------------------------------------------------
\* Bounds of the model
MaxRels == 2        \* declared relationships per schema
MaxReq  == 3        \* tables per request
MaxLongReq == 4     \* tables per request where the scan order is examined

\* Input universes
TableNames == {"fact_sales", "orders", "dim_store"}
Roles      == {"fact", "dimension"}
JoinTypes  == {"LEFT JOIN", "INNER JOIN"}

None == <<>>
Some(x) == <<x>>

\* the columns every table of the model declares
DeclaredColumns == {"key", "id"}

\* an entry of self.tables: the table's dict of the schema document
TableEntry(role) == [role |-> role, columns |-> DeclaredColumns]
TableEntries == {TableEntry(r) : r \in Roles}

SeqsUpTo(S, n) == UNION {[1..k -> S] : k \in 0..n}
Range(s) == {s[i] : i \in 1..Len(s)}

-----------------------------------------------------------------------------
\* TableRelationship dataclass
TableRelationship(ft, fc, tt, tc, jt, d) ==
    [from_table |-> ft, from_column |-> fc, to_table |-> tt, to_column |-> tc,
     join_type |-> jt, description |-> d]

\* relationship declarations a schema document can carry ("from": "t.key",
\* "to": "u.id", optional "join_type" defaulting to LEFT JOIN)
DeclaredRels ==
    {TableRelationship(ft, "key", tt, "id", jt, "") :
        ft \in TableNames, tt \in TableNames, jt \in JoinTypes}

\* declarations between two different tables that keep the default join type
DefaultRels ==
    {r \in DeclaredRels : r.from_table # r.to_table /\ r.join_type = "LEFT JOIN"}

\* str.startswith("fact_") over the table names of the model
StartsWithFact(t) == t \in {"fact_sales"}

\* SchemaParser._find_fact_table: the first table of the list that is named
\* fact_* or whose entry has role "fact"; None when there is none
RECURSIVE FindFactFrom(_, _)
FindFactFrom(ts, i) ==
    IF i > Len(ts) THEN None
    ELSE IF StartsWithFact(ts[i]) THEN Some(ts[i])
    ELSE IF ts[i] \in DOMAIN tables /\ tables[ts[i]].role = "fact" THEN Some(ts[i])
    ELSE FindFactFrom(ts, i + 1)

\* mutant: only the declared role makes a table a fact table
RECURSIVE FindFactByRoleFrom(_, _)
FindFactByRoleFrom(ts, i) ==
    IF i > Len(ts) THEN None
    ELSE IF ts[i] \in DOMAIN tables /\ tables[ts[i]].role = "fact" THEN Some(ts[i])
    ELSE FindFactByRoleFrom(ts, i + 1)

find_fact_table_role_only(ts) == FindFactByRoleFrom(ts, 1)

find_fact_table(ts) == FindFactFrom(ts, 1)

\* SchemaParser._find_relationship: first declared relationship, in declaration
\* order, that links a connected table and the target in either direction
RECURSIVE FindRelFrom(_, _, _)
FindRelFrom(connected, target, i) ==
    IF i > Len(relationships) THEN None
    ELSE LET rel == relationships[i] IN
         IF rel.from_table \in connected /\ rel.to_table = target
         THEN Some(rel)
         ELSE IF rel.to_table \in connected /\ rel.from_table = target
         THEN Some(TableRelationship(rel.to_table, rel.to_column,
                                     rel.from_table, rel.from_column,
                                     "INNER JOIN", rel.description))
         ELSE FindRelFrom(connected, target, i + 1)

\* mutant: relationships are followed in their declared direction only
RECURSIVE FindRelForwardFrom(_, _, _)
FindRelForwardFrom(connected, target, i) ==
    IF i > Len(relationships) THEN None
    ELSE LET rel == relationships[i] IN
         IF rel.from_table \in connected /\ rel.to_table = target
         THEN Some(rel)
         ELSE FindRelForwardFrom(connected, target, i + 1)

find_relationship_forward_only(connected, target) ==
    FindRelForwardFrom(connected, target, 1)

\* mutant: a reversed edge keeps the declared join_type
RECURSIVE FindRelKeepTypeFrom(_, _, _)
FindRelKeepTypeFrom(connected, target, i) ==
    IF i > Len(relationships) THEN None
    ELSE LET rel == relationships[i] IN
         IF rel.from_table \in connected /\ rel.to_table = target
         THEN Some(rel)
         ELSE IF rel.to_table \in connected /\ rel.from_table = target
         THEN Some(TableRelationship(rel.to_table, rel.to_column,
                                     rel.from_table, rel.from_column,
                                     rel.join_type, rel.description))
         ELSE FindRelKeepTypeFrom(connected, target, i + 1)

find_relationship_keep_type(connected, target) ==
    FindRelKeepTypeFrom(connected, target, 1)

find_relationship(connected, target) == FindRelFrom(connected, target, 1)

\* mutant: the start table is not taken out of the remaining tables
WithoutNothing(ts, x) == ts

\* [table for table in required_tables if table != start_table]
Without(ts, x) == SelectSeq(ts, LAMBDA t : t # x)

\* list.remove(x): drops the first occurrence of x
RECURSIVE RemoveFirst(_, _)
RemoveFirst(ts, x) ==
    IF ts = <<>> THEN <<>>
    ELSE IF Head(ts) = x THEN Tail(ts)
    ELSE <<Head(ts)>> \o RemoveFirst(Tail(ts), x)

\* TableRelationship.to_sql_join() without aliases:
\* f"{join_type}  {to_table} ON {from_table}.{from_column} = {to_table}.{to_column}"
to_sql_join(rel) ==
    <<rel.join_type, rel.to_table, "ON", rel.from_table, rel.from_column,
      "=", rel.to_table, rel.to_column>>

\* JoinPath.to_sql(): one line per relationship, "" (no line) when there is none
to_sql(jp) == [i \in 1..Len(jp.relationships) |-> to_sql_join(jp.relationships[i])]

JoinPath(ts, rels) == [tables |-> ts, relationships |-> rels]

-----------------------------------------------------------------------------
\* no call of the resolver is in progress
JoinIdle ==
    /\ pc = "idle"
    /\ required_tables = <<>>
    /\ remaining_tables = <<>>
    /\ connected_tables = {}
    /\ join_path = JoinPath(<<>>, <<>>)
    /\ found_connection = FALSE
    /\ idx = 0
    /\ result = None
    /\ fr_args = None
    /\ fr_result = None
    /\ sql_lines = <<>>

\* no call of the validator is in progress
ValIdle ==
    /\ vpc = "idle"
    /\ sql = <<>>
    /\ errors = <<>>
    /\ vresult = None

\* no call of get_relevant_tables or generate_multi_table_sql is in progress
GenIdle ==
    /\ gpc = "idle"
    /\ calls = <<>>
    /\ gr_args = None
    /\ llm_tables = None
    /\ gr_result = None
    /\ relevant_tables = <<>>
    /\ response = None
    /\ sql_query = <<>>
    /\ gresult = None

\* validate_selected_tables, validate_sql_columns and get_schema_summary
\* were not called
CheckIdle ==
    /\ vs_args = None
    /\ vs_result = None
    /\ vc_args = None
    /\ vc_result = None
    /\ summary = None

\* get_schema_parser was not called: no instance exists, no file was read
LoadIdle ==
    /\ schema_file = None
    /\ parsers = <<>>
    /\ loads = 0

\* extract_and_convert_dates was not called
DateIdle ==
    /\ original_text = <<>>
    /\ converted = None
    /\ passes = 0

\* no call of generate_sql_with_validation is in progress
RetryIdle ==
    /\ rpc = "idle"
    /\ max_retries = 0
    /\ confidence_threshold = 0
    /\ attempt = 0
    /\ attempts = <<>>
    /\ previous_sql = None
    /\ validation_errors = None
    /\ rresult = None

\* no call of validate_and_retry is in progress
QueryIdle ==
    /\ qpc = "idle"
    /\ q_args = None
    /\ prompt = <<>>
    /\ q_attempt = 0
    /\ last_error = None
    /\ llm_calls = <<>>
    /\ qresult = None

ExtIdle == CheckIdle /\ LoadIdle /\ DateIdle /\ RetryIdle /\ QueryIdle

\* State after SchemaParser.load_star_schema(): any role per table, any
\* sequence of default-typed relationships between different tables
Init ==
    /\ tables \in [TableNames -> TableEntries]
    /\ relationships \in SeqsUpTo(DefaultRels, MaxRels)
    /\ JoinIdle
    /\ ValIdle
    /\ schema = None
    /\ GenIdle
    /\ ExtIdle

\* State after load_star_schema() for direct _find_relationship calls: any
\* sequence of declarations, self-references and explicit join types included
InitRel ==
    /\ tables = [t \in TableNames |-> TableEntry("dimension")]
    /\ relationships \in SeqsUpTo(DeclaredRels, MaxRels)
    /\ JoinIdle
    /\ ValIdle
    /\ schema = None
    /\ GenIdle
    /\ ExtIdle

\* State after load_star_schema() for the runs that examine the scan order:
\* no table has role "fact", any sequence of default-typed relationships
InitOrder ==
    /\ tables = [t \in TableNames |-> TableEntry("dimension")]
    /\ relationships \in SeqsUpTo(DefaultRels, MaxRels)
    /\ JoinIdle
    /\ ValIdle
    /\ schema = None
    /\ GenIdle
    /\ ExtIdle

\* find_join_path, lines 189-204: argument check, root choice, initialisation
FindJoinPathOn(requests) ==
    /\ pc = "idle"
    /\ \E req \in requests :
        /\ required_tables' = req
        /\ IF req = <<>>
           THEN /\ result' = None
                /\ pc' = "done"
                /\ UNCHANGED <<remaining_tables, connected_tables, join_path>>
           ELSE LET fact == find_fact_table(req)
                    start_table == IF fact # None THEN fact[1] ELSE req[1]
                    rem == Without(req, start_table)
                IN  /\ remaining_tables' = rem
                    /\ connected_tables' = {start_table}
                    /\ join_path' = JoinPath(<<start_table>>, <<>>)
                    /\ IF rem = <<>>
                       THEN result' = Some(join_path') /\ pc' = "done"
                       ELSE result' = None /\ pc' = "while"
    /\ UNCHANGED <<tables, relationships, found_connection, idx, fr_args,
                   fr_result, sql_lines>>

FindJoinPathCall ==
    /\ FindJoinPathOn(SeqsUpTo(TableNames, MaxReq))
    /\ UNCHANGED <<val_vars, gen_vars, ext_vars>>

FindJoinPathLongCall ==
    /\ FindJoinPathOn(SeqsUpTo(TableNames, MaxLongReq))
    /\ UNCHANGED <<val_vars, gen_vars, ext_vars>>

\* line 206-208: while remaining_tables: found_connection = False; for ... in copy
WhileTest ==
    /\ pc = "while"
    /\ IF remaining_tables # <<>>
       THEN /\ found_connection' = FALSE
            /\ idx' = 1
            /\ pc' = "for"
            /\ UNCHANGED result
       ELSE /\ result' = Some(join_path)
            /\ pc' = "done"
            /\ UNCHANGED <<found_connection, idx>>
    /\ UNCHANGED <<tables, relationships, required_tables, remaining_tables,
                   connected_tables, join_path, fr_args, fr_result, sql_lines>>
    /\ UNCHANGED <<val_vars, gen_vars, ext_vars>>

\* mutant: the attached table is not appended to join_path.tables
ForStepNoTableAppend ==
    /\ pc = "for"
    /\ idx <= Len(remaining_tables)
    /\ LET target == remaining_tables[idx]
           rel == find_relationship(connected_tables, target)
       IN IF rel # None
          THEN /\ join_path' = JoinPath(join_path.tables,
                                        Append(join_path.relationships, rel[1]))
               /\ connected_tables' = connected_tables \cup {target}
               /\ remaining_tables' = RemoveFirst(remaining_tables, target)
               /\ found_connection' = TRUE
               /\ pc' = "after_for"
               /\ UNCHANGED idx
          ELSE /\ idx' = idx + 1
               /\ UNCHANGED <<join_path, connected_tables, remaining_tables,
                              found_connection, pc>>
    /\ UNCHANGED <<tables, relationships, required_tables, result, fr_args,
                   fr_result, sql_lines>>
    /\ UNCHANGED <<val_vars, gen_vars, ext_vars>>

\* mutant: no break after an attachment, the scan goes on with the next target
ForStepNoBreak ==
    /\ pc = "for"
    /\ idx <= Len(remaining_tables)
    /\ LET target == remaining_tables[idx]
           rel == find_relationship(connected_tables, target)
       IN IF rel # None
          THEN /\ join_path' = JoinPath(Append(join_path.tables, target),
                                        Append(join_path.relationships, rel[1]))
               /\ connected_tables' = connected_tables \cup {target}
               /\ remaining_tables' = RemoveFirst(remaining_tables, target)
               /\ found_connection' = TRUE
               /\ UNCHANGED <<idx, pc>>
          ELSE /\ idx' = idx + 1
               /\ UNCHANGED <<join_path, connected_tables, remaining_tables,
                              found_connection, pc>>
    /\ UNCHANGED <<tables, relationships, required_tables, result, fr_args,
                   fr_result, sql_lines>>
    /\ UNCHANGED <<val_vars, gen_vars, ext_vars>>

\* lines 208-216: one iteration of the for loop
ForStep ==
    /\ pc = "for"
    /\ idx <= Len(remaining_tables)
    /\ LET target == remaining_tables[idx]
           rel == find_relationship(connected_tables, target)
       IN IF rel # None
          THEN /\ join_path' = JoinPath(Append(join_path.tables, target),
                                        Append(join_path.relationships, rel[1]))
               /\ connected_tables' = connected_tables \cup {target}
               /\ remaining_tables' = RemoveFirst(remaining_tables, target)
               /\ found_connection' = TRUE
               /\ pc' = "after_for"
               /\ UNCHANGED idx
          ELSE /\ idx' = idx + 1
               /\ UNCHANGED <<join_path, connected_tables, remaining_tables,
                              found_connection, pc>>
    /\ UNCHANGED <<tables, relationships, required_tables, result, fr_args,
                   fr_result, sql_lines>>
    /\ UNCHANGED <<val_vars, gen_vars, ext_vars>>

\* the for loop ran out of targets
ForExhausted ==
    /\ pc = "for"
    /\ idx > Len(remaining_tables)
    /\ pc' = "after_for"
    /\ UNCHANGED <<tables, relationships, required_tables, remaining_tables,
                   connected_tables, join_path, found_connection, idx, result,
                   fr_args, fr_result, sql_lines>>
    /\ UNCHANGED <<val_vars, gen_vars, ext_vars>>

\* mutant: the path built so far is returned when no connection was found
AfterForPartial ==
    /\ pc = "after_for"
    /\ IF ~found_connection
       THEN result' = Some(join_path) /\ pc' = "done"
       ELSE UNCHANGED result /\ pc' = "while"
    /\ UNCHANGED <<tables, relationships, required_tables, remaining_tables,
                   connected_tables, join_path, found_connection, idx,
                   fr_args, fr_result, sql_lines>>
    /\ UNCHANGED <<val_vars, gen_vars, ext_vars>>

\* lines 218-219: if not found_connection: return None
AfterFor ==
    /\ pc = "after_for"
    /\ IF ~found_connection
       THEN result' = None /\ pc' = "done"
       ELSE UNCHANGED result /\ pc' = "while"
    /\ UNCHANGED <<tables, relationships, required_tables, remaining_tables,
                   connected_tables, join_path, found_connection, idx,
                   fr_args, fr_result, sql_lines>>
    /\ UNCHANGED <<val_vars, gen_vars, ext_vars>>

\* the caller renders the returned path: JoinPath.to_sql()
ToSqlCall ==
    /\ pc = "done"
    /\ result # None
    /\ sql_lines' = to_sql(result[1])
    /\ pc' = "rendered"
    /\ UNCHANGED <<tables, relationships, required_tables, remaining_tables,
                   connected_tables, join_path, found_connection, idx, result,
                   fr_args, fr_result>>
    /\ UNCHANGED <<val_vars, gen_vars, ext_vars>>

\* mutant: a relationship found against its declared direction is stored
\* among the declared relationships
FindRelationshipCallStoring ==
    /\ pc = "idle"
    /\ \E connected \in SUBSET TableNames, target \in TableNames :
        /\ fr_args' = Some([connected |-> connected, target |-> target])
        /\ fr_result' = find_relationship(connected, target)
        /\ relationships' =
              IF /\ find_relationship(connected, target) # None
                 /\ find_relationship(connected, target)[1] \notin Range(relationships)
              THEN Append(relationships, find_relationship(connected, target)[1])
              ELSE relationships
    /\ pc' = "rel_done"
    /\ UNCHANGED <<tables, required_tables, remaining_tables,
                   connected_tables, join_path, found_connection, idx, result,
                   sql_lines>>
    /\ UNCHANGED <<val_vars, gen_vars, ext_vars>>

\* a direct call _find_relationship(connected_tables, target_table)
FindRelationshipCall ==
    /\ pc = "idle"
    /\ \E connected \in SUBSET TableNames, target \in TableNames :
        /\ fr_args' = Some([connected |-> connected, target |-> target])
        /\ fr_result' = find_relationship(connected, target)
    /\ pc' = "rel_done"
    /\ UNCHANGED <<tables, relationships, required_tables, remaining_tables,
                   connected_tables, join_path, found_connection, idx, result,
                   sql_lines>>
    /\ UNCHANGED <<val_vars, gen_vars, ext_vars>>

Next ==
    \/ FindJoinPathCall
    \/ WhileTest
    \/ ForStep
    \/ ForExhausted
    \/ AfterFor
    \/ ToSqlCall

Spec == Init /\ [][Next]_vars

NextRel == FindRelationshipCall

NextOrder ==
    \/ FindJoinPathLongCall
    \/ WhileTest
    \/ ForStep
    \/ ForExhausted
    \/ AfterFor
    \/ ToSqlCall

SpecOrder == InitOrder /\ [][NextOrder]_vars

SpecRel == InitRel /\ [][NextRel]_vars

-----------------------------------------------------------------------------
\* SQLValidator (src/src/sql_validator.py).  A SQL string is a sequence of
\* one-character strings; the regular expressions are matched on it character
\* by character.

UpperOf ==
    ("a" :> "A") @@ ("b" :> "B") @@ ("c" :> "C") @@ ("d" :> "D") @@ ("e" :> "E") @@ ("f" :> "F") @@
    ("g" :> "G") @@ ("h" :> "H") @@ ("i" :> "I") @@ ("j" :> "J") @@ ("k" :> "K") @@ ("l" :> "L") @@
    ("m" :> "M") @@ ("n" :> "N") @@ ("o" :> "O") @@ ("p" :> "P") @@ ("q" :> "Q") @@ ("r" :> "R") @@
    ("s" :> "S") @@ ("t" :> "T") @@ ("u" :> "U") @@ ("v" :> "V") @@ ("w" :> "W") @@ ("x" :> "X") @@
    ("y" :> "Y") @@ ("z" :> "Z")

LowerLetters == DOMAIN UpperOf
UpperLetters == {UpperOf[c] : c \in LowerLetters}
Digits       == {"0", "1", "2", "3", "4", "5", "6", "7", "8", "9"}
Whitespace   == {" ", "\t", "\n"}

\* \w of the re module, on ASCII text
WordChars == LowerLetters \cup UpperLetters \cup Digits \cup {"_"}

\* str.upper(); matching with re.IGNORECASE compares the upper-cased text
UpperChar(c) == IF c \in LowerLetters THEN UpperOf[c] ELSE c
Upper(s) == [i \in 1..Len(s) |-> UpperChar(s[i])]

kw_INSERT == <<"I", "N", "S", "E", "R", "T">>
kw_UPDATE == <<"U", "P", "D", "A", "T", "E">>
kw_DELETE == <<"D", "E", "L", "E", "T", "E">>
kw_DROP == <<"D", "R", "O", "P">>
kw_CREATE == <<"C", "R", "E", "A", "T", "E">>
kw_ALTER == <<"A", "L", "T", "E", "R">>
kw_TRUNCATE == <<"T", "R", "U", "N", "C", "A", "T", "E">>
kw_MERGE == <<"M", "E", "R", "G", "E">>
kw_REPLACE == <<"R", "E", "P", "L", "A", "C", "E">>
kw_EXEC == <<"E", "X", "E", "C">>
kw_CALL == <<"C", "A", "L", "L">>
kw_GRANT == <<"G", "R", "A", "N", "T">>
kw_REVOKE == <<"R", "E", "V", "O", "K", "E">>
kw_SUM == <<"S", "U", "M">>
kw_AVG == <<"A", "V", "G">>
kw_COUNT == <<"C", "O", "U", "N", "T">>
kw_MIN == <<"M", "I", "N">>
kw_MAX == <<"M", "A", "X">>
kw_DATE == <<"D", "A", "T", "E">>
kw_DATE_TRUNC == <<"D", "A", "T", "E", "_", "T", "R", "U", "N", "C">>
kw_COALESCE == <<"C", "O", "A", "L", "E", "S", "C", "E">>
kw_YEAR == <<"Y", "E", "A", "R">>
kw_MONTH == <<"M", "O", "N", "T", "H">>
kw_SELECT == <<"S", "E", "L", "E", "C", "T">>
kw_UNION == <<"U", "N", "I", "O", "N">>
kw_OR == <<"O", "R">>
kw_XP_ == <<"X", "P", "_">>
kw_INFORMATION_SCHEMA == <<"I", "N", "F", "O", "R", "M", "A", "T", "I", "O", "N", "_", "S", "C", "H", "E", "M", "A">>
kw_CAST == <<"C", "A", "S", "T">>
kw_CONVERT == <<"C", "O", "N", "V", "E", "R", "T">>
kw_LIMIT == <<"L", "I", "M", "I", "T">>

\* the literal lit stands in s at position i
LitAt(s, i, lit) ==
    /\ i >= 1
    /\ i + Len(lit) - 1 <= Len(s)
    /\ \A k \in 1..Len(lit) : s[i + k - 1] = lit[k]

\* \b between the characters i-1 and i of s
Boundary(s, i) ==
    LET before == i > 1 /\ i - 1 <= Len(s) /\ s[i - 1] \in WordChars
        after  == i >= 1 /\ i <= Len(s) /\ s[i] \in WordChars
    IN  before # after

\* the position of the first character at or after i that is no whitespace
RECURSIVE SkipWs(_, _)
SkipWs(s, i) ==
    IF i <= Len(s) /\ s[i] \in Whitespace THEN SkipWs(s, i + 1) ELSE i

\* elements of a regular expression
ReB       == [t |-> "b",   alts |-> {}]            \* \b
ReWs0     == [t |-> "ws*", alts |-> {}]            \* \s*
ReWs1     == [t |-> "ws+", alts |-> {}]            \* \s+
ReLazy    == [t |-> "any", alts |-> {}]            \* [\s\S]*?
ReAlt(S)  == [t |-> "alt", alts |-> S]             \* (a|b|...)
ReLit(cs) == ReAlt({cs})

\* the elements k.. of the expression re match s from position i on
\* (backtracking over every length a repetition can take)
RECURSIVE MatchFrom(_, _, _, _)
MatchFrom(s, i, re, k) ==
    IF k > Len(re) THEN TRUE
    ELSE LET e == re[k] IN
         CASE e.t = "b"   -> Boundary(s, i) /\ MatchFrom(s, i, re, k + 1)
           [] e.t = "ws*" -> \E j \in i..SkipWs(s, i) : MatchFrom(s, j, re, k + 1)
           [] e.t = "ws+" -> \E j \in (i + 1)..SkipWs(s, i) : MatchFrom(s, j, re, k + 1)
           [] e.t = "any" -> \E j \in i..(Len(s) + 1) : MatchFrom(s, j, re, k + 1)
           [] e.t = "alt" -> \E a \in e.alts :
                                LitAt(s, i, a) /\ MatchFrom(s, i + Len(a), re, k + 1)

\* re.search(pattern, sql, re.IGNORECASE) finds a match
Search(re, s) == \E i \in 1..(Len(s) + 1) : MatchFrom(Upper(s), i, re, 1)

\* self.pattern_labels, in insertion order
pattern_labels == <<
    [pattern |-> <<ReLit(<<";">>), ReWs0,
                   ReAlt({kw_DROP, kw_DELETE, kw_UPDATE, kw_ALTER, kw_INSERT})>>,
     label |-> "Command chaining with destructive SQL"],
    [pattern |-> <<ReLit(<<"-", "-">>)>>,
     label |-> "Inline SQL comment (possible injection)"],
    [pattern |-> <<ReLit(<<"/", "*">>), ReLazy, ReLit(<<"*", "/">>)>>,
     label |-> "Block SQL comment (possible injection)"],
    [pattern |-> <<ReB, ReLit(kw_UNION), ReWs1, ReLit(kw_SELECT), ReB>>,
     label |-> "UNION-based SQL injection attempt"],
    [pattern |-> <<ReB, ReLit(kw_OR), ReWs1, ReLit(<<"1">>), ReWs0, ReLit(<<"=">>),
                   ReWs0, ReLit(<<"1">>), ReB>>,
     label |-> "Boolean-based SQL injection (OR 1=1)"],
    [pattern |-> <<ReB, ReLit(kw_EXEC), ReB>>,
     label |-> "EXEC call detected (dangerous procedure execution)"],
    [pattern |-> <<ReLit(<<";">>), ReWs0, ReLit(kw_EXEC), ReB>>,
     label |-> "Command chaining with EXEC (dangerous)"],
    [pattern |-> <<ReB, ReLit(kw_XP_)>>,
     label |-> "Extended stored procedure call (SQL Server attack)"],
    [pattern |-> <<ReB, ReLit(kw_INFORMATION_SCHEMA), ReB>>,
     label |-> "Schema enumeration attempt (probing metadata)"],
    [pattern |-> <<ReB, ReLit(kw_CAST), ReWs0, ReLit(<<"(">>)>>,
     label |-> "CAST() function detected (possible injection chain)"],
    [pattern |-> <<ReB, ReLit(kw_CONVERT), ReWs0, ReLit(<<"(">>)>>,
     label |-> "CONVERT() function detected (possible injection chain)"] >>

\* self.forbidden_commands, in list order
forbidden_commands == <<kw_INSERT, kw_UPDATE, kw_DELETE, kw_DROP, kw_CREATE, kw_ALTER, kw_TRUNCATE,
                        kw_MERGE, kw_REPLACE, kw_EXEC, kw_CALL, kw_GRANT, kw_REVOKE>>

\* self.allowed_functions
allowed_functions == {kw_SUM, kw_AVG, kw_COUNT, kw_MIN, kw_MAX,
                      kw_DATE, kw_DATE_TRUNC, kw_COALESCE, kw_YEAR, kw_MONTH}

SetMin(S) == CHOOSE x \in S : \A y \in S : x <= y

\* what a check returns: (ok, msg, token); msg is a text and the value
\* formatted into it
CheckOk == [ok |-> TRUE, text |-> "OK", arg |-> <<>>, token |-> None]
CheckFail(text, arg, token) == [ok |-> FALSE, text |-> text, arg |-> arg, token |-> token]

\* the commands of the deny-list that stand at position i of s as whole words
\* (the pattern \b(INSERT|UPDATE|...)\b at position i)
ForbiddenAt(s, i) ==
    IF ~Boundary(s, i) THEN {}
    ELSE {k \in 1..Len(forbidden_commands) :
            /\ LitAt(s, i, forbidden_commands[k])
            /\ Boundary(s, i + Len(forbidden_commands[k]))}

\* mutant: the deny-list is matched without re.IGNORECASE
check_forbidden_commands_case_sensitive(q) ==
    LET hits == {i \in 1..Len(q) : ForbiddenAt(q, i) # {}}
    IN  IF hits = {} THEN CheckOk
        ELSE LET cmd == forbidden_commands[SetMin(ForbiddenAt(q, SetMin(hits)))]
             IN  CheckFail("Forbidden SQL operation detected: ", cmd, Some(cmd))

\* SQLValidator._check_forbidden_commands: the leftmost whole-word command
check_forbidden_commands(q) ==
    LET u == Upper(q)
        hits == {i \in 1..Len(u) : ForbiddenAt(u, i) # {}}
    IN  IF hits = {} THEN CheckOk
        ELSE LET cmd == forbidden_commands[SetMin(ForbiddenAt(u, SetMin(hits)))]
             IN  CheckFail("Forbidden SQL operation detected: ", cmd, Some(cmd))

SetMax(S) == CHOOSE x \in S : \A y \in S : x >= y

\* mutant: the loop over the table does not stop at the first match
check_dangerous_pattern_last(q) ==
    LET found == {k \in 1..Len(pattern_labels) : Search(pattern_labels[k].pattern, q)}
    IN  IF found = {} THEN CheckOk
        ELSE CheckFail(pattern_labels[SetMax(found)].label, <<>>,
                       Some(pattern_labels[SetMax(found)].pattern))

\* SQLValidator._check_dangerous_pattern: the first pattern, in table order,
\* that is found anywhere in the query
check_dangerous_pattern(q) ==
    LET found == {k \in 1..Len(pattern_labels) : Search(pattern_labels[k].pattern, q)}
    IN  IF found = {} THEN CheckOk
        ELSE CheckFail(pattern_labels[SetMin(found)].label, <<>>,
                       Some(pattern_labels[SetMin(found)].pattern))

\* SQLValidator._check_limit (validate does not call it)
check_limit(q) ==
    IF ~\E i \in 1..Len(q) : LitAt(Upper(q), i, kw_LIMIT)
    THEN CheckFail("Query must contain a Limit Clause", <<>>, None)
    ELSE CheckOk

\* the characters [a-zA-Z_]
NameChars == LowerLetters \cup UpperLetters \cup {"_"}

\* end (exclusive) of the run of characters of S that starts at i
RECURSIVE RunEnd(_, _, _)
RunEnd(s, i, S) == IF i <= Len(s) /\ s[i] \in S THEN RunEnd(s, i + 1, S) ELSE i

\* re.findall(r'\b([a-zA-Z_]+)\s*\(', sql): the start positions of the
\* matches; the group is the whole run of name characters, which must be
\* followed, after optional whitespace, by "("
FunctionStarts(q) ==
    {i \in 1..Len(q) :
        /\ Boundary(q, i)
        /\ q[i] \in NameChars
        /\ LET e == SkipWs(q, RunEnd(q, i, NameChars))
           IN  e <= Len(q) /\ q[e] = "("}

FunctionName(q, i) == SubSeq(q, i, RunEnd(q, i, NameChars) - 1)

\* SQLValidator._check_functions: the first called name, from the left, that
\* is not in the allow-list
check_functions(q) ==
    LET bad == {i \in FunctionStarts(q) : Upper(FunctionName(q, i)) \notin allowed_functions}
    IN  IF bad = {} THEN CheckOk
        ELSE CheckFail("Forbidden SQL function detected: ",
                       FunctionName(q, SetMin(bad)), Some(FunctionName(q, SetMin(bad))))

\* SQLValidator._check_schema_lock: always passes (validate does not call it)
check_schema_lock(q) == CheckOk

\* SQLValidator._check_basic_syntax: sql.strip().upper().startswith("SELECT")
check_basic_syntax(q) ==
    IF ~LitAt(Upper(q), SkipWs(q, 1), kw_SELECT)
    THEN CheckFail("Query must start with SELECT", <<>>, None)
    ELSE CheckOk

\* f"{prefix}: {msg}", one entry of errors
ErrorEntry(prefix, chk) == [prefix |-> prefix, text |-> chk.text, arg |-> chk.arg]

Separator == [prefix |-> "", text |-> "; ", arg |-> <<>>]

\* "; ".join(errors)
RECURSIVE Join(_)
Join(es) ==
    IF es = <<>> THEN <<>>
    ELSE IF Len(es) = 1 THEN es
    ELSE <<es[1], Separator>> \o Join(Tail(es))

\* SQLValidator._fail
fail(code, message, invalid_token, q) ==
    [ok |-> FALSE, error_code |-> Some(code), error_message |-> message,
     invalid_token |-> invalid_token, sql |-> q, fixed |-> FALSE]

\* the dict validate returns when every check passed
Passed(q) ==
    [ok |-> TRUE, error_code |-> None, error_message |-> None,
     invalid_token |-> None, sql |-> q, fixed |-> FALSE]

\* pieces of SQL text the queries of the model are put together from
Chunks == {
    <<"S", "E", "L", "E", "C", "T", " ">>,
    <<"x">>,
    <<" ">>,
    <<"_">>,
    <<"1">>,
    <<";">>,
    <<"-", "-">>,
    <<"D", "E", "L", "E", "T", "E">>,
    <<"d", "R", "o", "P">>,
    <<"S", "U", "M", "(">>,
    <<"L", "I", "M", "I", "T">> }

MaxChunks == 3      \* chunks per query

RECURSIVE Flatten(_)
Flatten(ss) == IF ss = <<>> THEN <<>> ELSE Head(ss) \o Flatten(Tail(ss))

Queries == {Flatten(c) : c \in SeqsUpTo(Chunks, MaxChunks)}

\* pieces of SQL text for the queries that call functions, use keywords
\* before a parenthesis, or open with WITH
CallChunks == {
    <<"S", "E", "L", "E", "C", "T", " ">>,
    <<"W", "I", "T", "H", " ">>,
    <<"x">>,
    <<" ">>,
    <<"(">>,
    <<"S", "U", "M">>,
    <<"s", "u", "m">>,
    <<"S", "U", "B", "S", "T", "R", "I", "N", "G">>,
    <<"M", "D", "5">>,
    <<"I", "N">>,
    <<"A", "N", "D">>,
    <<"O", "R">>,
    <<"N", "O", "T">>,
    <<"L", "I", "K", "E">>,
    <<"A", "S">>,
    <<"V", "A", "L", "U", "E", "S">>,
    <<"F", "R", "O", "M">>,
    <<"J", "O", "I", "N">> }

CallQueries == {Flatten(c) : c \in SeqsUpTo(CallChunks, MaxChunks)}

\* validate(sql), line 132: errors = []
ValidateOn(queries) ==
    /\ vpc = "idle"
    /\ \E q \in queries : sql' = q
    /\ errors' = <<>>
    /\ vpc' = "forbidden"
    /\ UNCHANGED <<vresult, schema, join_vars, gen_vars, ext_vars>>

ValidateCall == ValidateOn(Queries)

ValidateCallQuery == ValidateOn(CallQueries)

\* pieces of SQL text for the queries that hold injection patterns
PatternChunks == {
    <<"S", "E", "L", "E", "C", "T", " ">>,
    <<"x">>,
    <<";", " ", "d", "r", "o", "p">>,
    <<"-", "-">>,
    <<"/", "*">>,
    <<"*", "/">>,
    <<"U", "N", "I", "O", "N", " ">>,
    <<"O", "R", " ">>,
    <<"1", "=", "1">>,
    <<"E", "X", "E", "C">>,
    <<"x", "p", "_">>,
    <<"I", "N", "F", "O", "R", "M", "A", "T", "I", "O", "N", "_", "S", "C", "H", "E", "M", "A">>,
    <<"C", "A", "S", "T", "(">> }

MaxPatternChunks == 2   \* chunks per query with injection patterns

PatternQueries == {Flatten(c) : c \in SeqsUpTo(PatternChunks, MaxPatternChunks)}

ValidatePatternQuery == ValidateOn(PatternQueries)

\* the schema dict a validator is constructed with: {"table": ..., "columns": ...}
test_table == <<"t", "e", "s", "t", "_", "t", "a", "b", "l", "e">>
test_schema == [table |-> test_table, columns |-> {"id", "name", "value"}]

\* pieces of SQL text for the queries that name a table
TableChunks == {
    <<"S", "E", "L", "E", "C", "T", " ">>,
    <<"i", "d">>,
    <<" ", "F", "R", "O", "M", " ">>,
    test_table,
    <<"w", "r", "o", "n", "g", "_", "t", "a", "b", "l", "e">>,
    <<" ", "L", "I", "M", "I", "T", " ", "1", "0">> }

TableQueries == {Flatten(c) : c \in SeqsUpTo(TableChunks, MaxChunks)}

ValidateTableQuery == ValidateOn(TableQueries)

\* lines 135-137: the forbidden-command check
CheckForbidden ==
    /\ vpc = "forbidden"
    /\ LET chk == check_forbidden_commands(sql)
       IN  errors' = IF ~chk.ok
                     THEN Append(errors, ErrorEntry("Security violation", chk))
                     ELSE errors
    /\ vpc' = "dangerous"
    /\ UNCHANGED <<sql, vresult, schema, join_vars, gen_vars, ext_vars>>

\* mutant: the pattern check is skipped once a violation has been collected
CheckDangerousUnlessFailed ==
    /\ vpc = "dangerous"
    /\ LET chk == check_dangerous_pattern(sql)
       IN  errors' = IF errors = <<>> /\ ~chk.ok
                     THEN Append(errors, ErrorEntry("Injection risk", chk))
                     ELSE errors
    /\ vpc' = "functions"
    /\ UNCHANGED <<sql, vresult, schema, join_vars, gen_vars, ext_vars>>

\* lines 139-141: the dangerous-pattern check
CheckDangerous ==
    /\ vpc = "dangerous"
    /\ LET chk == check_dangerous_pattern(sql)
       IN  errors' = IF ~chk.ok
                     THEN Append(errors, ErrorEntry("Injection risk", chk))
                     ELSE errors
    /\ vpc' = "functions"
    /\ UNCHANGED <<sql, vresult, schema, join_vars, gen_vars, ext_vars>>

\* lines 147-149: the function check
CheckFunctions ==
    /\ vpc = "functions"
    /\ LET chk == check_functions(sql)
       IN  errors' = IF ~chk.ok
                     THEN Append(errors, ErrorEntry("Function restriction", chk))
                     ELSE errors
    /\ vpc' = "syntax"
    /\ UNCHANGED <<sql, vresult, schema, join_vars, gen_vars, ext_vars>>

\* lines 156-158: the basic-shape check
CheckSyntax ==
    /\ vpc = "syntax"
    /\ LET chk == check_basic_syntax(sql)
       IN  errors' = IF ~chk.ok
                     THEN Append(errors, ErrorEntry("Syntax error", chk))
                     ELSE errors
    /\ vpc' = "finish"
    /\ UNCHANGED <<sql, vresult, schema, join_vars, gen_vars, ext_vars>>

\* lines 160-173
ValidateReturn ==
    /\ vpc = "finish"
    /\ vresult' = IF errors # <<>>
                  THEN Some(fail("MULTIPLE_VIOLATIONS", Join(errors), None, sql))
                  ELSE Some(Passed(sql))
    /\ vpc' = "done"
    /\ UNCHANGED <<sql, errors, schema, join_vars, gen_vars, ext_vars>>

\* SQLValidator() beside a loaded schema; the validator reads none of it
InitValidator ==
    /\ tables = [t \in TableNames |-> TableEntry("dimension")]
    /\ relationships = <<>>
    /\ JoinIdle
    /\ ValIdle
    /\ schema = None
    /\ GenIdle
    /\ ExtIdle

NextValidator ==
    \/ ValidateCall
    \/ CheckForbidden
    \/ CheckDangerous
    \/ CheckFunctions
    \/ CheckSyntax
    \/ ValidateReturn

SpecValidator == InitValidator /\ [][NextValidator]_vars

NextCalls ==
    \/ ValidateCallQuery
    \/ CheckForbidden
    \/ CheckDangerous
    \/ CheckFunctions
    \/ CheckSyntax
    \/ ValidateReturn

SpecCalls == InitValidator /\ [][NextCalls]_vars

\* SQLValidator(schema) or SQLValidator(): self.schema is the dict or None
InitLocked ==
    /\ tables = [t \in TableNames |-> TableEntry("dimension")]
    /\ relationships = <<>>
    /\ JoinIdle
    /\ ValIdle
    /\ schema \in {None, Some(test_schema)}
    /\ GenIdle
    /\ ExtIdle

NextLocked ==
    \/ ValidateTableQuery
    \/ CheckForbidden
    \/ CheckDangerous
    \/ CheckFunctions
    \/ CheckSyntax
    \/ ValidateReturn

SpecLocked == InitLocked /\ [][NextLocked]_vars

NextPatterns ==
    \/ ValidatePatternQuery
    \/ CheckForbidden
    \/ CheckDangerous
    \/ CheckFunctions
    \/ CheckSyntax
    \/ ValidateReturn

SpecPatterns == InitValidator /\ [][NextPatterns]_vars

-----------------------------------------------------------------------------
\* Table selection: SchemaParser.get_relevant_tables (src/src/schema_parser.py)
\* and its collaborator select_tables (src/src/llm_table_selector.py)

MaxAnswer == 3      \* names in an answer of the table-selection LLM

\* names the LLM can answer with: the model's tables and one no schema has
AnswerNames == TableNames \cup {"customers"}

\* what json.loads(content) can yield: a list of names, an object (iterating
\* it yields its keys), or a value that cannot be iterated (null, a number)
JsonValue(type, items) == [type |-> type, items |-> items]
JsonValues ==
    {JsonValue("array", a) : a \in SeqsUpTo(AnswerNames, MaxAnswer)}
    \cup {JsonValue("object", <<"tables">>), JsonValue("object", <<"orders">>)}
    \cup {JsonValue("null", <<>>), JsonValue("number", <<>>)}

\* what the chat completion of select_tables can do: fail (no API key, no
\* prompt file, network), answer text that is not JSON, or answer JSON
LlmReply(kind, value) == [kind |-> kind, value |-> value]
LlmReplies ==
    {LlmReply("failure", JsonValue("null", <<>>)),
     LlmReply("not_json", JsonValue("null", <<>>))}
    \cup {LlmReply("json", v) : v \in JsonValues}

\* select_tables: json.loads(content), or [] on JSONDecodeError and on any
\* other exception
select_tables(reply) ==
    IF reply.kind = "json" THEN reply.value ELSE JsonValue("array", <<>>)

\* how a call ends: return value or raised exception
Return(value) == [kind |-> "return", value |-> value, error |-> "",
                  text |-> "", arg |-> {}]
Raise(error, text, arg) == [kind |-> "raise", value |-> <<>>, error |-> error,
                            text |-> text, arg |-> arg]

\* the arguments actual_table_names of the calls: the default None, an empty
\* list, the physical name of a flat table, two names
ActualArgs == {None, Some(<<>>), Some(<<"c_users_r">>), Some(<<"orders", "c_users_r">>)}

\* mutant: the actual names are used whenever they are given
UsesActualNamesWhenGiven(actual) == actual # None /\ actual[1] # <<>>

\* line 291: len(self.tables) == 1 and actual_table_names
UsesActualNames(actual) ==
    Cardinality(DOMAIN tables) = 1 /\ actual # None /\ actual[1] # <<>>

\* lines 298-308: the names of the answer that are tables of the schema, in
\* the answer's order; ValueError when none is; iterating null or a number
\* raises TypeError
post_validate(answer) ==
    IF answer.type \notin {"array", "object"}
    THEN Raise("TypeError", "object is not iterable", {})
    ELSE LET valid_tables == SelectSeq(answer.items, LAMBDA t : t \in DOMAIN tables)
         IN  IF valid_tables = <<>>
             THEN Raise("ValueError",
                        "Cannot answer question: No matching tables found in schema. Available tables: ",
                        DOMAIN tables)
             ELSE Return(valid_tables)

\* get_relevant_tables(question, actual_table_names), lines 284-308
GetRelevantTables(actual) ==
    IF UsesActualNames(actual)
    THEN /\ gr_result' = Some(Return(actual[1]))
         /\ UNCHANGED <<calls, llm_tables>>
    ELSE \E reply \in LlmReplies :
            /\ calls' = Append(calls, "select_tables")
            /\ llm_tables' = Some(select_tables(reply))
            /\ gr_result' = Some(post_validate(select_tables(reply)))

\* a direct call parser.get_relevant_tables(question, actual_table_names)
GetRelevantTablesCall ==
    /\ gpc = "idle"
    /\ \E actual \in ActualArgs :
          /\ gr_args' = Some(actual)
          /\ GetRelevantTables(actual)
    /\ gpc' = "selected"
    /\ UNCHANGED <<relevant_tables, response, sql_query, gresult>>
    /\ UNCHANGED <<join_vars, val_vars, ext_vars>>

\* State after load_star_schema() of a schema document with any set of
\* tables: none, one (a flat table), or several
InitSelect ==
    /\ tables \in UNION {[S -> TableEntries] : S \in SUBSET TableNames}
    /\ relationships = <<>>
    /\ JoinIdle
    /\ ValIdle
    /\ schema = None
    /\ GenIdle
    /\ ExtIdle

NextSelect == GetRelevantTablesCall

SpecSelect == InitSelect /\ [][NextSelect]_vars

-----------------------------------------------------------------------------
\* generate_multi_table_sql (src/src/llm_sql_generator.py, lines 304-428)

\* str.strip(): the text without leading and trailing whitespace
RECURSIVE StripRight(_)
StripRight(s) ==
    IF s # <<>> /\ s[Len(s)] \in Whitespace
    THEN StripRight(SubSeq(s, 1, Len(s) - 1)) ELSE s

Strip(s) == StripRight(SubSeq(s, SkipWs(s, 1), Len(s)))

\* str.startswith(lit)
StartsWith(s, lit) == LitAt(s, 1, lit)

\* str.replace(lit, ""): every occurrence of lit, from the left, removed
RECURSIVE Remove(_, _)
Remove(s, lit) ==
    IF s = <<>> THEN <<>>
    ELSE IF LitAt(s, 1, lit) THEN Remove(SubSeq(s, Len(lit) + 1, Len(s)), lit)
    ELSE <<Head(s)>> \o Remove(Tail(s), lit)

\* the element that stands for the backquote character of a Markdown fence
Backquote == "backquote"

fence     == <<Backquote, Backquote, Backquote>>
fence_sql == <<Backquote, Backquote, Backquote, "s", "q", "l">>

\* lines 414-419: the Markdown fences are taken out of the text
clean_up(q) ==
    LET a == IF StartsWith(q, fence_sql)
             THEN Strip(Remove(Remove(q, fence_sql), fence))
             ELSE q
    IN  IF StartsWith(a, fence) THEN Strip(Remove(a, fence)) ELSE a

\* texts the SQL completion answers with: a query over declared columns, a
\* query naming an undeclared column, the sentinel of a question the schema
\* cannot answer; bare, fenced, with whitespace around
ResponseBodies == {
    <<"S", "E", "L", "E", "C", "T", " ", "o", "r", "d", "e", "r", "s", ".", "i", "d">>,
    <<"S", "E", "L", "E", "C", "T", " ", "o", "r", "d", "e", "r", "s", ".", "z", "z">>,
    <<"E", "R", "R", "O", "R", ":", " ", "n", "o", " ", "d", "a", "t", "a">> }

ResponseOpenings == {<<>>, fence_sql \o <<"\n">>, fence \o <<"\n">>, <<" ">>}
ResponseEndings  == {<<>>, <<"\n">> \o fence, <<"\n">>}

LlmResponses ==
    {o \o b \o e : o \in ResponseOpenings, b \in ResponseBodies, e \in ResponseEndings}

\* relationships of a star around fact_sales
StarRels == {r \in DefaultRels : r.from_table = "fact_sales"}

\* lines 323-326: processed_question = extract_and_convert_dates(user_question)
GenNormalizeDates ==
    /\ gpc = "idle"
    /\ calls' = Append(calls, "normalize_dates")
    /\ gpc' = "parser"
    /\ UNCHANGED <<gr_args, llm_tables, gr_result, relevant_tables, response,
                   sql_query, gresult>>
    /\ UNCHANGED <<join_vars, val_vars, ext_vars>>

\* lines 328-329: parser = get_schema_parser(schema_name); loading the
\* schema document can fail
GenLoadParser ==
    /\ gpc = "parser"
    /\ calls' = Append(calls, "get_schema_parser")
    /\ \/ gpc' = "select" /\ UNCHANGED gresult
       \/ /\ gresult' = Some(Raise("Exception", "schema not loaded", {}))
          /\ gpc' = "done"
    /\ UNCHANGED <<gr_args, llm_tables, gr_result, relevant_tables, response,
                   sql_query>>
    /\ UNCHANGED <<join_vars, val_vars, ext_vars>>

\* lines 331-333: relevant_tables = parser.get_relevant_tables(processed_question)
GenSelectTables ==
    /\ gpc = "select"
    /\ gr_args' = Some(None)
    /\ GetRelevantTables(None)
    /\ IF gr_result'[1].kind = "raise"
       THEN /\ gresult' = gr_result'
            /\ gpc' = "done"
            /\ UNCHANGED relevant_tables
       ELSE /\ relevant_tables' = gr_result'[1].value
            /\ gpc' = "check_tables"
            /\ UNCHANGED gresult
    /\ UNCHANGED <<response, sql_query>>
    /\ UNCHANGED <<join_vars, val_vars, ext_vars>>

\* lines 335-336: if not relevant_tables: raise ValueError
GenCheckTables ==
    /\ gpc = "check_tables"
    /\ IF relevant_tables = <<>>
       THEN /\ gresult' = Some(Raise("ValueError",
                    "No relevant tables identified for the question", {}))
            /\ gpc' = "done"
       ELSE /\ gpc' = "join"
            /\ UNCHANGED gresult
    /\ UNCHANGED <<calls, gr_args, llm_tables, gr_result, relevant_tables,
                   response, sql_query>>
    /\ UNCHANGED <<join_vars, val_vars, ext_vars>>

\* line 339: join_path = parser.find_join_path(relevant_tables) is entered
GenFindJoinPath ==
    /\ gpc = "join"
    /\ FindJoinPathOn({relevant_tables})
    /\ calls' = Append(calls, "find_join_path")
    /\ gpc' = "resolving"
    /\ UNCHANGED <<gr_args, llm_tables, gr_result, relevant_tables, response,
                   sql_query, gresult>>
    /\ UNCHANGED <<val_vars, ext_vars>>

\* mutant: a request that could not be joined goes on to SQL generation
GenCheckJoinPathLenient ==
    /\ gpc = "resolving"
    /\ pc = "done"
    /\ gpc' = "prompt"
    /\ UNCHANGED gresult
    /\ UNCHANGED <<calls, gr_args, llm_tables, gr_result, relevant_tables,
                   response, sql_query>>
    /\ UNCHANGED <<join_vars, val_vars, ext_vars>>

\* lines 341-343: find_join_path has returned;
\* if join_path is None and len(relevant_tables) > 1: raise ValueError
GenCheckJoinPath ==
    /\ gpc = "resolving"
    /\ pc = "done"
    /\ IF result = None /\ Len(relevant_tables) > 1
       THEN /\ gresult' = Some(Raise("ValueError",
                    "Unable to connect selected tables with JOINs", {}))
            /\ gpc' = "done"
       ELSE /\ gpc' = "prompt"
            /\ UNCHANGED gresult
    /\ UNCHANGED <<calls, gr_args, llm_tables, gr_result, relevant_tables,
                   response, sql_query>>
    /\ UNCHANGED <<join_vars, val_vars, ext_vars>>

\* lines 345-401: the prompt is put together; join_sql = join_path.to_sql()
\* when the path has relationships, "" otherwise
GenBuildPrompt ==
    /\ gpc = "prompt"
    /\ sql_lines' = IF result # None /\ result[1].relationships # <<>>
                    THEN to_sql(result[1])
                    ELSE <<>>
    /\ gpc' = "llm"
    /\ UNCHANGED <<tables, relationships, pc, required_tables, remaining_tables,
                   connected_tables, join_path, found_connection, idx, result,
                   fr_args, fr_result>>
    /\ UNCHANGED <<calls, gr_args, llm_tables, gr_result, relevant_tables,
                   response, sql_query, gresult>>
    /\ UNCHANGED <<val_vars, ext_vars>>

\* lines 403-412: the chat completion; it raises, or answers with a text:
\* sql_query = response.choices[0].message.content.strip()
GenCallLLM ==
    /\ gpc = "llm"
    /\ calls' = Append(calls, "llm_generate_sql")
    /\ \/ /\ gresult' = Some(Raise("Exception", "completion failed", {}))
          /\ gpc' = "done"
          /\ UNCHANGED <<response, sql_query>>
       \/ \E content \in LlmResponses :
             /\ response' = Some(Strip(content))
             /\ sql_query' = Strip(content)
             /\ gpc' = "cleanup"
             /\ UNCHANGED gresult
    /\ UNCHANGED <<gr_args, llm_tables, gr_result, relevant_tables>>
    /\ UNCHANGED <<join_vars, val_vars, ext_vars>>

\* lines 414-421: the fences are removed and the text is returned
GenCleanUp ==
    /\ gpc = "cleanup"
    /\ sql_query' = clean_up(sql_query)
    /\ gresult' = Some(Return(clean_up(sql_query)))
    /\ gpc' = "done"
    /\ UNCHANGED <<calls, gr_args, llm_tables, gr_result, relevant_tables,
                   response>>
    /\ UNCHANGED <<join_vars, val_vars, ext_vars>>

\* State after load_star_schema() of a star schema: the three tables, any
\* sequence of relationships from the fact table
InitGen ==
    /\ tables = [t \in TableNames |->
                   TableEntry(IF t = "fact_sales" THEN "fact" ELSE "dimension")]
    /\ relationships \in SeqsUpTo(StarRels, MaxRels)
    /\ JoinIdle
    /\ ValIdle
    /\ schema = None
    /\ GenIdle
    /\ ExtIdle

NextGen ==
    \/ GenNormalizeDates
    \/ GenLoadParser
    \/ GenSelectTables
    \/ GenCheckTables
    \/ GenFindJoinPath
    \/ WhileTest
    \/ ForStep
    \/ ForExhausted
    \/ AfterFor
    \/ GenCheckJoinPath
    \/ GenBuildPrompt
    \/ GenCallLLM
    \/ GenCleanUp

SpecGen == InitGen /\ [][NextGen]_vars

-----------------------------------------------------------------------------
\* Vocabulary of the properties

\* the call of find_join_path has returned
Returned == pc \in {"done", "rendered"}

Distinct(s) == \A i, j \in 1..Len(s) : s[i] = s[j] => i = j

\* some declared relationship joins a and b, in either direction
Adjacent(a, b) ==
    \E i \in 1..Len(relationships) :
        \/ relationships[i].from_table = a /\ relationships[i].to_table = b
        \/ relationships[i].from_table = b /\ relationships[i].to_table = a

\* the tables of T reachable from S through relationships between tables of T
RECURSIVE Closure(_, _)
Closure(S, T) ==
    LET N == S \cup {t \in T : \E x \in S : Adjacent(x, t)}
    IN  IF N = S THEN S ELSE Closure(N, T)

\* the tables of T are joined to each other by relationships among themselves
ConnectedWithin(T) == T # {} /\ \A t \in T : Closure({t}, T) = T

\* the tables of T are joined to each other, possibly through other tables
TransitivelyConnected(T) ==
    T # {} /\ \A t \in T : T \subseteq Closure({t}, TableNames)

\* the declared relationships form a tree over the schema's tables
IsTree ==
    /\ Len(relationships) = Cardinality(DOMAIN tables) - 1
    /\ \A i \in 1..Len(relationships) :
          relationships[i].from_table # relationships[i].to_table
    /\ ConnectedWithin(DOMAIN tables)

\* positions of table t in a sequence of names
Positions(s, t) == {i \in 1..Len(s) : s[i] = t}

\* C1: for a tree-shaped schema and a request of distinct tables connected to
\* each other, find_join_path returns a JoinPath with len(tables) - 1
\* relationships in which every requested table occurs exactly once: the
\* root as tables[0], every other one as the to_table of exactly one JOIN line.
C1_TreeRequestResolved ==
    (Returned /\ IsTree /\ required_tables # <<>> /\ Distinct(required_tables)
        /\ ConnectedWithin(Range(required_tables)))
    => /\ result # None
       /\ LET jp == result[1] IN
          /\ Len(jp.relationships) = Len(required_tables) - 1
          /\ \A t \in Range(required_tables) :
                Cardinality(Positions(jp.tables, t)) = 1
          /\ pc = "rendered" =>
                \A t \in Range(required_tables) :
                    Cardinality({i \in 1..Len(sql_lines) : sql_lines[i][2] = t})
                        = IF t = jp.tables[1] THEN 0 ELSE 1

C1_Witness ==
    /\ pc = "rendered" /\ IsTree /\ Distinct(required_tables)
    /\ Len(required_tables) = 3
    /\ ConnectedWithin(Range(required_tables))
    /\ Len(sql_lines) = 2
    /\ \E i \in 1..2 : result[1].relationships[i].join_type = "INNER JOIN"

\* a relationship of a path comes from a declared one, as declared or reversed
Derived(r) ==
    \E i \in 1..Len(relationships) :
        LET d == relationships[i] IN
        \/ /\ r.from_table = d.from_table /\ r.from_column = d.from_column
           /\ r.to_table = d.to_table /\ r.to_column = d.to_column
        \/ /\ r.from_table = d.to_table /\ r.from_column = d.to_column
           /\ r.to_table = d.from_table /\ r.to_column = d.from_column

\* two requested tables lie in different components of the relationship graph
SpansComponents ==
    \E a, b \in Range(required_tables) : b \notin Closure({a}, TableNames)

\* C2: a request spanning two unconnected components returns not-found; a
\* returned JoinPath always covers the whole request and holds only
\* relationships derived from declared ones.
C2_DisconnectedNotFound ==
    Returned =>
        /\ SpansComponents => result = None
        /\ result # None =>
            /\ Range(result[1].tables) = Range(required_tables)
            /\ \A i \in 1..Len(result[1].relationships) :
                  Derived(result[1].relationships[i])

C2_Witness ==
    /\ pc = "done" /\ SpansComponents /\ result = None
    /\ Len(join_path.tables) = 2 /\ Len(required_tables) = 3

\* C3 as stated: not-found only when the requested tables are not transitively
\* connected; connected through declared relationships (possibly via tables
\* that were not requested) implies a JoinPath.
C3_Original ==
    (Returned /\ required_tables # <<>>) =>
        (result = None <=> ~TransitivelyConnected(Range(required_tables)))

\* C3 amended: for a non-empty request not-found is returned exactly when the
\* requested tables are not connected through declared relationships between
\* requested tables; tables that were not requested are never used as bridges.
C3_NotFoundIffNotConnectedWithinRequest ==
    (Returned /\ required_tables # <<>>) =>
        (result = None <=> ~ConnectedWithin(Range(required_tables)))

C3_Witness ==
    /\ pc = "done" /\ result = None
    /\ TransitivelyConnected(Range(required_tables))
    /\ ~ConnectedWithin(Range(required_tables))

\* C4: a returned JoinPath has at least one table, len(relationships) =
\* len(tables) - 1, and no relationships exactly when one table was requested;
\* an empty request returns not-found.
C4_PathShape ==
    Returned =>
        /\ required_tables = <<>> => result = None
        /\ result # None =>
            /\ Len(result[1].tables) >= 1
            /\ Len(result[1].relationships) = Len(result[1].tables) - 1
            /\ (result[1].relationships = <<>>
                  <=> Cardinality(Range(required_tables)) = 1)

C4_Witness ==
    /\ pc = "done" /\ result # None
    /\ Len(result[1].tables) = 3 /\ Len(result[1].relationships) = 2

\* the first table of ts that satisfies P, None when there is none
FirstWhere(ts, P(_)) ==
    IF \E i \in 1..Len(ts) : P(ts[i])
    THEN Some(ts[CHOOSE i \in 1..Len(ts) :
                    P(ts[i]) /\ \A j \in 1..(i - 1) : ~P(ts[j])])
    ELSE None

HasRoleFact(t) == t \in DOMAIN tables /\ tables[t].role = "fact"
NamedOrRoleFact(t) == StartsWithFact(t) \/ HasRoleFact(t)

RootBy(P(_)) ==
    LET f == FirstWhere(required_tables, P)
    IN  IF f # None THEN f[1] ELSE required_tables[1]

\* C5 as stated: the root is the first requested table whose declared role is
\* "fact", or the first requested table when none has that role.
C5_Original ==
    (Returned /\ result # None) => result[1].tables[1] = RootBy(HasRoleFact)

\* C5 amended: the root is the first requested table whose name starts with
\* "fact_" or whose declared role is "fact", or the first requested table when
\* there is no such table.
C5_RootIsFirstFactNamedOrRole ==
    (Returned /\ result # None) => result[1].tables[1] = RootBy(NamedOrRoleFact)

C5_Witness ==
    /\ pc = "done" /\ result # None
    /\ Len(required_tables) >= 2
    /\ result[1].tables[1] = "fact_sales"
    /\ tables["fact_sales"].role # "fact"
    /\ required_tables[1] # "fact_sales"

\* declaration d links the connected set to the target as declared / reversed
ForwardMatch(d, c, t) == d.from_table \in c /\ d.to_table = t
ReverseMatch(d, c, t) == d.to_table \in c /\ d.from_table = t

\* C6: _find_relationship returns an edge exactly when some declared
\* relationship links a connected table and the target in either direction;
\* the edge runs from a connected table to the target; a forward match is the
\* declared relationship, a reverse match has tables and columns swapped and
\* join_type "INNER JOIN".
C6_FindRelationshipUndirected ==
    pc = "rel_done" =>
        LET c == fr_args[1].connected
            t == fr_args[1].target
        IN  /\ fr_result = None <=>
                 ~\E i \in 1..Len(relationships) :
                     \/ ForwardMatch(relationships[i], c, t)
                     \/ ReverseMatch(relationships[i], c, t)
            /\ fr_result # None =>
                 LET r == fr_result[1] IN
                 /\ r.from_table \in c
                 /\ r.to_table = t
                 /\ \E i \in 1..Len(relationships) :
                      LET d == relationships[i] IN
                      \/ ForwardMatch(d, c, t) /\ r = d
                      \/ /\ ReverseMatch(d, c, t)
                         /\ r = [from_table |-> d.to_table,
                                 from_column |-> d.to_column,
                                 to_table |-> d.from_table,
                                 to_column |-> d.from_column,
                                 join_type |-> "INNER JOIN",
                                 description |-> d.description]

C6_Witness ==
    /\ pc = "rel_done" /\ fr_result # None
    /\ fr_result[1].from_column = "id" /\ fr_result[1].to_column = "key"
    /\ fr_result[1].join_type = "INNER JOIN"
    /\ \A i \in 1..Len(relationships) : relationships[i].join_type = "LEFT JOIN"
    /\ fr_args[1].target \notin fr_args[1].connected

\* the remaining table at position k is joined to an attached table by a
\* declared relationship
Attachable(k) ==
    \E x \in connected_tables : Adjacent(x, remaining_tables[k])

\* C7: each attachment takes the earliest-listed remaining table that has a
\* declared relationship to an attached table; relationships[i] joins
\* tables[i+1] to one of tables[0..i]; to_sql renders one line per
\* relationship in that order, each ON clause naming an earlier table.
C7_AttachStep ==
    (pc = "for" /\ join_path' # join_path) =>
        \E k \in 1..Len(remaining_tables) :
            /\ Attachable(k)
            /\ \A j \in 1..(k - 1) : ~Attachable(j)
            /\ join_path'.tables = Append(join_path.tables, remaining_tables[k])
            /\ Len(join_path'.relationships) = Len(join_path.relationships) + 1
            /\ remaining_tables' = RemoveFirst(remaining_tables, remaining_tables[k])

C7_PathOrdered ==
    /\ \A i \in 1..Len(join_path.relationships) :
          /\ i + 1 <= Len(join_path.tables)
          /\ join_path.relationships[i].to_table = join_path.tables[i + 1]
          /\ join_path.relationships[i].from_table
                \in {join_path.tables[j] : j \in 1..i}
    /\ pc = "rendered" =>
          /\ Len(sql_lines) = Len(result[1].relationships)
          /\ \A i \in 1..Len(sql_lines) :
                /\ sql_lines[i][2] = result[1].tables[i + 1]
                /\ sql_lines[i][7] = result[1].tables[i + 1]
                /\ sql_lines[i][4] \in {result[1].tables[j] : j \in 1..i}
                /\ sql_lines[i][1] = result[1].relationships[i].join_type
                /\ sql_lines[i][5] = result[1].relationships[i].from_column
                /\ sql_lines[i][8] = result[1].relationships[i].to_column

\* C7: every attachment step is greedy in request order, and at every moment
\* the path and its rendering are in attachment order (the two parts above).
C7_GreedyRequestOrder == [][C7_AttachStep]_vars /\ []C7_PathOrdered

\* the scan restarted from the top: the request listed x, y, y after the
\* root, y was attached first, then x (skipped before), then y again
C7_Witness ==
    /\ pc = "rendered" /\ Len(sql_lines) = 3
    /\ Len(required_tables) = 4
    /\ result[1].tables[1] = required_tables[1]
    /\ result[1].tables[2] = required_tables[3]
    /\ result[1].tables[3] = required_tables[2]
    /\ result[1].tables[4] = required_tables[4]

-----------------------------------------------------------------------------
\* Properties of SQLValidator.validate

\* the entries of a joined message, and its separators
MessageEntries(m) == {m[p] : p \in {p \in 1..Len(m) : p % 2 = 1}}
WellJoined(m) == \A p \in 1..Len(m) : p % 2 = 0 => m[p] = Separator

\* the labelled explanations of the checks of validate that fail on q
FailingEntries(q) ==
    {ErrorEntry(c[1], c[2]) :
        c \in {c \in {<<"Security violation", check_forbidden_commands(q)>>,
                      <<"Injection risk", check_dangerous_pattern(q)>>,
                      <<"Function restriction", check_functions(q)>>,
                      <<"Syntax error", check_basic_syntax(q)>>} : ~c[2].ok}}

WholeWordAt(u, i, w) ==
    /\ LitAt(u, i, w)
    /\ i = 1 \/ u[i - 1] \notin WordChars
    /\ i + Len(w) > Len(u) \/ u[i + Len(w)] \notin WordChars

\* positions of q where a deny-listed command stands as a whole word, in any case
CommandPositions(q) ==
    {i \in 1..Len(q) :
        \E k \in 1..Len(forbidden_commands) :
            WholeWordAt(Upper(q), i, forbidden_commands[k])}

\* C9: a query that holds a deny-listed command as a whole word, in any letter
\* case and at any position, is rejected with a "Security violation"
\* explanation that names the matched (leftmost) command.
C9_ForbiddenCommandRejected ==
    vpc = "done" =>
        LET at == CommandPositions(sql) IN
        at # {} =>
            /\ ~vresult[1].ok
            /\ \E e \in MessageEntries(vresult[1].error_message) :
                  /\ e.prefix = "Security violation"
                  /\ e.text = "Forbidden SQL operation detected: "
                  /\ WholeWordAt(Upper(sql), SetMin(at), e.arg)

C9_Witness ==
    /\ vpc = "done"
    /\ \E i \in CommandPositions(sql) : i > 1 /\ sql[i] \in LowerLetters
    /\ ~vresult[1].ok
    /\ check_basic_syntax(sql).ok

kw_GROUP  == <<"G", "R", "O", "U", "P">>
kw_BY     == <<"B", "Y">>
kw_HAVING == <<"H", "A", "V", "I", "N", "G">>

\* an aggregation signal: a SUM/COUNT/AVG/MIN/MAX call, GROUP BY or HAVING
AggregationSignal(q) ==
    \/ Search(<<ReB, ReAlt({kw_SUM, kw_COUNT, kw_AVG, kw_MIN, kw_MAX}), ReWs0,
                ReLit(<<"(">>)>>, q)
    \/ Search(<<ReB, ReLit(kw_GROUP), ReWs1, ReLit(kw_BY), ReB>>, q)
    \/ Search(<<ReB, ReLit(kw_HAVING), ReB>>, q)

\* C10: a plain SELECT with no LIMIT clause and no aggregation signal is
\* rejected with a message saying the query must contain a LIMIT clause.
C10_PlainSelectNeedsLimit ==
    (vpc = "done" /\ check_basic_syntax(sql).ok /\ ~check_limit(sql).ok
        /\ ~AggregationSignal(sql))
    => /\ ~vresult[1].ok
       /\ \E e \in MessageEntries(vresult[1].error_message) :
             e.text = "Query must contain a Limit Clause"

-----------------------------------------------------------------------------
\* the explanations of a returned dict that carry the given label
EntriesOf(r, prefix) ==
    {e \in MessageEntries(r.error_message) : e.prefix = prefix}

\* positions of q where a call stands: an identifier (letters, digits and
\* underscores, not starting with a digit) followed by "("
CallPositions(q) ==
    {i \in 1..Len(q) :
        /\ Boundary(q, i)
        /\ q[i] \in NameChars
        /\ LET e == SkipWs(q, RunEnd(q, i, WordChars))
           IN  e <= Len(q) /\ q[e] = "("}

CalledName(q, i) == SubSeq(q, i, RunEnd(q, i, WordChars) - 1)

\* C11: a query that calls a function whose upper-cased name is not in the
\* allow-list is rejected with a "Function restriction" explanation naming
\* such a function; a query whose calls are all allow-listed gets no
\* function violation.
C11_NonAllowListedCallRejected ==
    vpc = "done" =>
        LET bad == {i \in CallPositions(sql) :
                      Upper(CalledName(sql, i)) \notin allowed_functions}
            reported == EntriesOf(vresult[1], "Function restriction")
        IN  /\ bad # {} =>
                /\ ~vresult[1].ok
                /\ \E e \in reported : \E i \in bad : e.arg = CalledName(sql, i)
            /\ bad = {} => reported = {}

kw_IN     == <<"I", "N">>
kw_AND    == <<"A", "N", "D">>
kw_NOT    == <<"N", "O", "T">>
kw_LIKE   == <<"L", "I", "K", "E">>
kw_AS     == <<"A", "S">>
kw_VALUES == <<"V", "A", "L", "U", "E", "S">>
kw_FROM   == <<"F", "R", "O", "M">>
kw_JOIN   == <<"J", "O", "I", "N">>
kw_WITH   == <<"W", "I", "T", "H">>

\* the SQL keywords that are not functions
NonFunctionKeywords ==
    {kw_IN, kw_AND, kw_OR, kw_NOT, kw_LIKE, kw_AS, kw_VALUES, kw_FROM, kw_JOIN}

\* C12: the function check never reports IN, AND, OR, NOT, LIKE, AS, VALUES,
\* FROM or JOIN standing before "(": no "Function restriction" explanation
\* names one of them, and a query that is otherwise valid (every other name
\* before "(" is allow-listed, the other checks pass) is accepted.
C12_KeywordNotReportedAsFunction ==
    vpc = "done" =>
        /\ \A e \in EntriesOf(vresult[1], "Function restriction") :
              Upper(e.arg) \notin NonFunctionKeywords
        /\ ( /\ check_forbidden_commands(sql).ok
             /\ check_dangerous_pattern(sql).ok
             /\ check_basic_syntax(sql).ok
             /\ \A i \in CallPositions(sql) :
                   Upper(CalledName(sql, i))
                       \in allowed_functions \cup NonFunctionKeywords )
           => vresult[1].ok

\* C13: a syntax violation is reported if and only if the trimmed,
\* upper-cased query starts with neither SELECT nor WITH, and every query
\* starting with anything else is rejected.
C13_SyntaxViolationIffNotSelectOrWith ==
    vpc = "done" =>
        LET first == SkipWs(sql, 1)
            shaped == \/ LitAt(Upper(sql), first, kw_SELECT)
                      \/ LitAt(Upper(sql), first, kw_WITH)
        IN  /\ EntriesOf(vresult[1], "Syntax error") # {} <=> ~shaped
            /\ ~shaped => ~vresult[1].ok

-----------------------------------------------------------------------------
\* The patterns of the table, each stated directly on the upper-cased text u

StartsWord(u, i) == i = 1 \/ u[i - 1] \notin WordChars
EndsWord(u, j) == j > Len(u) \/ u[j] \notin WordChars
CharAt(u, i, c) == i >= 1 /\ i <= Len(u) /\ u[i] = c
SpaceAt(u, i) == i >= 1 /\ i <= Len(u) /\ u[i] \in Whitespace

\* ";" followed, after optional whitespace, by one of the words
ChainedTo(u, words) ==
    \E i \in 1..Len(u) :
        u[i] = ";" /\ \E w \in words : LitAt(u, SkipWs(u, i + 1), w)

\* the word followed, after optional whitespace, by "("
WordThenParen(u, w) ==
    \E i \in 1..Len(u) :
        /\ StartsWord(u, i) /\ LitAt(u, i, w)
        /\ CharAt(u, SkipWs(u, i + Len(w)), "(")

\* which rows of the table are present in q, in table order
PatternPresent(q) ==
    LET u == Upper(q) IN
    << ChainedTo(u, {kw_DROP, kw_DELETE, kw_UPDATE, kw_ALTER, kw_INSERT}),
       \E i \in 1..Len(u) : LitAt(u, i, <<"-", "-">>),
       \E i, j \in 1..Len(u) :
           i + 2 <= j /\ LitAt(u, i, <<"/", "*">>) /\ LitAt(u, j, <<"*", "/">>),
       \E i \in 1..Len(u) :
           /\ StartsWord(u, i) /\ LitAt(u, i, kw_UNION) /\ SpaceAt(u, i + 5)
           /\ LitAt(u, SkipWs(u, i + 5), kw_SELECT)
           /\ EndsWord(u, SkipWs(u, i + 5) + 6),
       \E i \in 1..Len(u) :
           /\ StartsWord(u, i) /\ LitAt(u, i, kw_OR) /\ SpaceAt(u, i + 2)
           /\ LET a == SkipWs(u, i + 2)
                  b == SkipWs(u, a + 1)
                  c == SkipWs(u, b + 1)
              IN  /\ CharAt(u, a, "1") /\ CharAt(u, b, "=") /\ CharAt(u, c, "1")
                  /\ EndsWord(u, c + 1),
       \E i \in 1..Len(u) : WholeWordAt(u, i, kw_EXEC),
       \E i \in 1..Len(u) :
           /\ u[i] = ";" /\ LitAt(u, SkipWs(u, i + 1), kw_EXEC)
           /\ EndsWord(u, SkipWs(u, i + 1) + 4),
       \E i \in 1..Len(u) : StartsWord(u, i) /\ LitAt(u, i, kw_XP_),
       \E i \in 1..Len(u) : WholeWordAt(u, i, kw_INFORMATION_SCHEMA),
       WordThenParen(u, kw_CAST),
       WordThenParen(u, kw_CONVERT) >>

\* positions of a joined message whose explanation carries the label
PositionsOf(m, prefix) == {p \in 1..Len(m) : p % 2 = 1 /\ m[p].prefix = prefix}

\* C14: the dangerous-pattern check contributes at most one "Injection risk"
\* explanation, the label of the first row of the table that is present; a
\* query holding one of the patterns is rejected; and whether or not a
\* pattern is present, the forbidden-command, function and shape checks
\* report their violations.
C14_FirstPatternOnly ==
    vpc = "done" =>
        LET r == vresult[1]
            rows == PatternPresent(sql)
            present == {k \in 1..Len(pattern_labels) : rows[k]}
            at == PositionsOf(r.error_message, "Injection risk")
        IN  /\ Cardinality(at) <= 1
            /\ present = {} => at = {}
            /\ present # {} =>
                /\ ~r.ok
                /\ \E p \in at :
                      r.error_message[p].text = pattern_labels[SetMin(present)].label
            /\ CommandPositions(sql) # {}
                  <=> PositionsOf(r.error_message, "Security violation") # {}
            /\ ~check_functions(sql).ok
                  <=> PositionsOf(r.error_message, "Function restriction") # {}
            /\ ~LitAt(Upper(sql), SkipWs(sql, 1), kw_SELECT)
                  <=> PositionsOf(r.error_message, "Syntax error") # {}

\* an inline comment stands before a chained DROP: the chaining label, first
\* in the table, is the one reported, beside the forbidden command
C14_Witness ==
    /\ vpc = "done"
    /\ LitAt(sql, 1, <<"-", "-">>)
    /\ PatternPresent(sql)[1] /\ PatternPresent(sql)[2]
    /\ Len(vresult[1].error_message) = 5
    /\ vresult[1].error_message[1].prefix = "Security violation"
    /\ vresult[1].error_message[3].text = "Command chaining with destructive SQL"
    /\ vresult[1].error_message[5].prefix = "Syntax error"

-----------------------------------------------------------------------------
\* the text lit occurs somewhere in q
Contains(q, lit) == \E i \in 1..Len(q) : LitAt(q, i, lit)

\* C15: a validator constructed with a schema rejects, with a "Schema
\* violation" explanation, every query that does not reference the schema's
\* table.
C15_SchemaLockEnforced ==
    (vpc = "done" /\ schema # None /\ ~Contains(sql, schema[1].table))
    => /\ ~vresult[1].ok
       /\ PositionsOf(vresult[1].error_message, "Schema violation") # {}

-----------------------------------------------------------------------------
\* Properties of SchemaParser.get_relevant_tables

\* C19: when the schema has exactly one table and actual_table_names is
\* supplied (a non-empty list), get_relevant_tables returns it unchanged and
\* select_tables is never invoked; in every other case select_tables is
\* invoked (once).
C19_FlatTableBypassesLLM ==
    gpc = "selected" =>
        LET actual == gr_args[1]
            supplied == actual # None /\ Len(actual[1]) > 0
        IN  IF Cardinality(DOMAIN tables) = 1 /\ supplied
            THEN /\ gr_result = Some(Return(actual[1]))
                 /\ calls = <<>>
                 /\ llm_tables = None
            ELSE calls = <<"select_tables">>

\* a flat schema, whose single table has another name than the physical one
C19_Witness ==
    /\ gpc = "selected"
    /\ Cardinality(DOMAIN tables) = 1
    /\ gr_result = Some(Return(<<"c_users_r">>))
    /\ "c_users_r" \notin DOMAIN tables
    /\ calls = <<>>

\* the names an answer of the LLM holds: the items of a list or the keys of
\* an object; any other answer holds none
AnswerList(answer) ==
    IF answer.type \in {"array", "object"} THEN answer.items ELSE <<>>

\* C20: on the LLM path get_relevant_tables returns the LLM's answer filtered
\* to tables of the schema, in the LLM's order; when no valid name remains it
\* fails with an error naming the available tables; it never returns an
\* empty list and never falls back to all tables.
C20_AnswerFilteredOrError ==
    (gpc = "selected" /\ calls # <<>>) =>
        LET names == AnswerList(llm_tables[1])
            valid == SelectSeq(names, LAMBDA t : t \in DOMAIN tables)
            out == gr_result[1]
        IN  /\ valid # <<>> => out = Return(valid)
            /\ valid = <<>> =>
                /\ out.kind = "raise"
                /\ out.arg = DOMAIN tables
            /\ out.kind = "return" => out.value # <<>>

-----------------------------------------------------------------------------
\* Properties of generate_multi_table_sql

PipelineOrder ==
    <<"normalize_dates", "select_tables", "find_join_path", "llm_generate_sql">>

\* the steps of the pipeline among the collaborators invoked so far
Steps == SelectSeq(calls, LAMBDA c : c \in Range(PipelineOrder))

Called(c) == c \in Range(calls)

\* C16: the steps happen in the order normalize dates, select tables, resolve
\* join path, call the LLM for SQL, each at most once; the LLM is called for
\* SQL only after table selection returned at least one table and, for more
\* than one table, the tables could be joined; a failure of table selection
\* or of join resolution ends the call with an error (for the join case
\* "Unable to connect selected tables with JOINs") and without any SQL.
C16_PipelineOrder ==
    /\ Steps = SubSeq(PipelineOrder, 1, Len(Steps))
    /\ Called("llm_generate_sql") =>
          /\ relevant_tables # <<>>
          /\ gr_result = Some(Return(relevant_tables))
          /\ Len(relevant_tables) > 1 =>
                result # None /\ ConnectedWithin(Range(relevant_tables))
    /\ (gresult # None /\ gresult[1].kind = "return") => Called("llm_generate_sql")
    /\ (gpc = "done" /\ gr_result # None /\ gr_result[1].kind = "raise") =>
          /\ gresult[1].kind = "raise"
          /\ ~Called("find_join_path") /\ ~Called("llm_generate_sql")
          /\ sql_query = <<>>
    /\ (gpc = "done" /\ Called("find_join_path")
            /\ ~ConnectedWithin(Range(relevant_tables))) =>
          /\ gresult[1].kind = "raise"
          /\ gresult[1].text = "Unable to connect selected tables with JOINs"
          /\ ~Called("llm_generate_sql")
          /\ sql_query = <<>>

\* two selected tables that no relationship joins
C16_Witness ==
    /\ gpc = "done"
    /\ Len(relevant_tables) = 2
    /\ calls = <<"normalize_dates", "get_schema_parser", "select_tables",
                 "find_join_path">>
    /\ gresult[1].text = "Unable to connect selected tables with JOINs"

\* the sentinel of a question the schema cannot answer
sentinel == <<"E", "R", "R", "O", "R", ":">>

\* C17: when the LLM's text, fences removed, is the sentinel "ERROR: <reason>",
\* generate_multi_table_sql fails with a data-not-available error; the
\* sentinel text is never returned as a SQL string.
C17_SentinelNeverReturned ==
    gpc = "done" =>
        /\ (response # None /\ StartsWith(clean_up(response[1]), sentinel)) =>
              /\ gresult[1].kind = "raise"
              /\ gresult[1].error = "DataNotAvailableError"
        /\ gresult[1].kind = "return" => ~StartsWith(gresult[1].value, sentinel)

-----------------------------------------------------------------------------
\* SchemaParser.validate_sql_columns (generate_multi_table_sql does not call it)

kw_WHERE == <<"W", "H", "E", "R", "E">>
kw_ORDER == <<"O", "R", "D", "E", "R">>
kw_LEFT  == <<"L", "E", "F", "T">>
kw_RIGHT == <<"R", "I", "G", "H", "T">>
kw_INNER == <<"I", "N", "N", "E", "R">>
kw_OUTER == <<"O", "U", "T", "E", "R">>

\* line 258: the words skipped as table part of a reference
skipped_words == {kw_SELECT, kw_FROM, kw_WHERE, kw_GROUP, kw_ORDER, kw_HAVING,
                  kw_JOIN, kw_LEFT, kw_RIGHT, kw_INNER, kw_OUTER}

\* the characters of the table and column names of the model
Spelling ==
    [fact_sales |-> <<"f", "a", "c", "t", "_", "s", "a", "l", "e", "s">>,
     orders     |-> <<"o", "r", "d", "e", "r", "s">>,
     dim_store  |-> <<"d", "i", "m", "_", "s", "t", "o", "r", "e">>,
     key        |-> <<"k", "e", "y">>,
     id         |-> <<"i", "d">>]

\* re.findall(r'(\w+)\.(\w+)', sql_query) from position i on: the pairs
\* (table part, column part), matched from the left without overlap
RECURSIVE ColumnRefsFrom(_, _)
ColumnRefsFrom(q, i) ==
    IF i > Len(q) THEN {}
    ELSE IF q[i] \notin WordChars THEN ColumnRefsFrom(q, i + 1)
    ELSE LET e == RunEnd(q, i, WordChars) IN
         IF e + 1 <= Len(q) /\ q[e] = "." /\ q[e + 1] \in WordChars
         THEN LET f == RunEnd(q, e + 1, WordChars)
              IN  {<<SubSeq(q, i, e - 1), SubSeq(q, e + 1, f - 1)>>}
                    \cup ColumnRefsFrom(q, f)
         ELSE ColumnRefsFrom(q, e)

\* lines 244-281: the references table.column whose table is a table of the
\* schema and whose column that table does not declare
invalid_columns(q) ==
    {ref \in ColumnRefsFrom(q, 1) :
        /\ Upper(ref[1]) \notin skipped_words
        /\ \E t \in DOMAIN tables :
              /\ Spelling[t] = ref[1]
              /\ ~\E c \in tables[t].columns : Spelling[c] = ref[2]}

validate_sql_columns(q) == invalid_columns(q) = {}

\* C18: when the SQL the LLM produced references, as table.column, a column
\* that one of the resolved tables does not declare, generate_multi_table_sql
\* returns no SQL (an empty result), neither the SQL string nor an exception.
C18_UndeclaredColumnGivesNoSql ==
    ( /\ gpc = "done" /\ response # None
      /\ \E ref \in invalid_columns(clean_up(response[1])) :
            \E t \in Range(relevant_tables) : Spelling[t] = ref[1] )
    => gresult[1] = Return(<<>>)

-----------------------------------------------------------------------------
\* SchemaParser.validate_selected_tables (src/src/schema_parser.py)

MaxSelected == 2    \* names in a selection passed to validate_selected_tables

\* the selections of the calls: any names, tables of the schema or not
SelectedArgs == SeqsUpTo(AnswerNames, MaxSelected)

\* the returned pair (is_valid, error_message); the two lists the message
\* is formatted from are kept beside its text
Verdict(is_valid, message, missing, available) ==
    [is_valid |-> is_valid, message |-> message, missing |-> missing,
     available |-> available]

\* mutant: a one-table schema is checked like any other
validate_selected_tables_no_shortcut(selected_tables) ==
    IF selected_tables = <<>>
    THEN Verdict(FALSE, "No tables were selected for the query", <<>>, {})
    ELSE LET missing_tables ==
                 SelectSeq(selected_tables, LAMBDA t : t \notin DOMAIN tables)
         IN  IF missing_tables # <<>>
             THEN Verdict(FALSE,
                          "Cannot generate query: Tables '{missing}' do not exist in schema. Available tables: {available_tables}",
                          missing_tables, DOMAIN tables)
             ELSE Verdict(TRUE, "", <<>>, {})

\* validate_selected_tables(selected_tables), lines 223-242
validate_selected_tables(selected_tables) ==
    IF selected_tables = <<>>
    THEN Verdict(FALSE, "No tables were selected for the query", <<>>, {})
    ELSE IF Cardinality(DOMAIN tables) = 1
    THEN Verdict(TRUE, "", <<>>, {})
    ELSE LET missing_tables ==
                 SelectSeq(selected_tables, LAMBDA t : t \notin DOMAIN tables)
         IN  IF missing_tables # <<>>
             THEN Verdict(FALSE,
                          "Cannot generate query: Tables '{missing}' do not exist in schema. Available tables: {available_tables}",
                          missing_tables, DOMAIN tables)
             ELSE Verdict(TRUE, "", <<>>, {})

\* a call parser.validate_selected_tables(selected_tables)
ValidateSelectedTablesCall ==
    /\ \E selected_tables \in SelectedArgs :
          /\ vs_args' = Some(selected_tables)
          /\ vs_result' = Some(validate_selected_tables(selected_tables))
    /\ UNCHANGED <<vc_args, vc_result, summary>>
    /\ UNCHANGED <<load_vars, date_vars, retry_vars, query_vars>>
    /\ UNCHANGED <<join_vars, val_vars, gen_vars>>

NextSelected == ValidateSelectedTablesCall

SpecSelected == InitSelect /\ [][NextSelected]_vars

\* C21: validate_selected_tables rejects an empty selection; with exactly one
\* table in the schema it accepts every non-empty selection, whatever the
\* names; with more than one table it accepts exactly the selections whose
\* names are all tables of the schema, and a rejection carries the selected
\* names that are not tables and the names of the schema's tables.
C21_SelectedTablesValidated ==
    vs_args # None =>
        LET selected == vs_args[1]
            verdict  == vs_result[1]
            known    == \A i \in DOMAIN selected : selected[i] \in DOMAIN tables
        IN  /\ selected = <<>> => ~verdict.is_valid
            /\ (selected # <<>> /\ Cardinality(DOMAIN tables) = 1)
                   => verdict.is_valid
            /\ (selected # <<>> /\ Cardinality(DOMAIN tables) > 1)
                   => /\ verdict.is_valid <=> known
                      /\ ~verdict.is_valid
                            => /\ Range(verdict.missing)
                                      = Range(selected) \ DOMAIN tables
                               /\ verdict.available = DOMAIN tables

\* a one-table schema accepted a selection naming something else
C21_Witness ==
    /\ vs_args # None
    /\ Cardinality(DOMAIN tables) = 1
    /\ \E i \in DOMAIN vs_args[1] : vs_args[1][i] \notin DOMAIN tables
    /\ vs_result[1].is_valid

-----------------------------------------------------------------------------
\* C29: for any request, one naming a table more than once included, the
\* JoinPath that find_join_path returns lists every distinct requested table
\* exactly once in tables, and none of its JOINs attaches a table that is
\* the root or was attached by an earlier JOIN.
C29_EachTableAttachedOnce ==
    (Returned /\ result # None) =>
        LET jp == result[1]
        IN  /\ Range(jp.tables) = Range(required_tables)
            /\ Distinct(jp.tables)
            /\ \A k \in DOMAIN jp.relationships :
                  \A j \in 1..k : jp.relationships[k].to_table # jp.tables[j]

-----------------------------------------------------------------------------
\* Loading a schema: get_schema_parser, SchemaParser.load_star_schema and
\* the _parse_* methods (src/src/schema_parser.py)

MaxEntries == 2     \* relationship entries of a schema document
MaxParsers == 2     \* calls of get_schema_parser

Dot == "."

\* texts found as "from" / "to" of a relationship entry: two segments
WellFormedEndpoints ==
    {Spelling["orders"] \o <<Dot>> \o Spelling["key"],
     Spelling["dim_store"] \o <<Dot>> \o Spelling["key"]}

\* one segment, three segments, and the empty text an absent key reads as
\* (rel.get("from", ""))
MalformedEndpoints ==
    {Spelling["orders"],
     Spelling["orders"] \o <<Dot>> \o Spelling["key"] \o <<Dot>> \o Spelling["id"],
     <<>>}

\* a relationship entry of the document; join_type <<>> is an absent key
RelEntry(from, to, join_type) ==
    [from |-> from, to |-> to, join_type |-> join_type]
RelEntries ==
    {RelEntry(f, t, None) : f \in WellFormedEndpoints, t \in WellFormedEndpoints}
    \cup {RelEntry(f, Spelling["orders"] \o <<Dot>> \o Spelling["key"], None) :
             f \in MalformedEndpoints}
    \cup {RelEntry(Spelling["orders"] \o <<Dot>> \o Spelling["key"], t, None) :
             t \in MalformedEndpoints}
    \cup {RelEntry(Spelling["orders"], <<>>, None),
          RelEntry(Spelling["orders"] \o <<Dot>> \o Spelling["key"],
                   Spelling["dim_store"] \o <<Dot>> \o Spelling["key"],
                   Some("INNER JOIN"))}

\* the "schema.tables" lists of the documents: dicts with name and role
FileTables ==
    {<<>>,
     <<[name |-> "orders", role |-> "fact"]>>,
     <<[name |-> "orders", role |-> "fact"],
       [name |-> "dim_store", role |-> "dimension"]>>}

\* json.loads of the schema file; kpis and synonyms <<>> are absent keys
Document(ts, rels, kpis, synonyms) ==
    [tables |-> ts, relationships |-> rels, kpis |-> kpis,
     synonyms |-> synonyms]
Documents ==
    {Document(ts, rels, k, sy) :
        ts \in FileTables, rels \in SeqsUpTo(RelEntries, MaxEntries),
        k \in {None, Some({"revenue"})}, sy \in {None, Some({"shop"})}}

\* str.split("."): the segments between the dots
RECURSIVE split(_)
split(s) ==
    IF \A i \in DOMAIN s : s[i] # Dot
    THEN <<s>>
    ELSE LET d == SetMin({i \in DOMAIN s : s[i] = Dot})
         IN  <<SubSeq(s, 1, d - 1)>> \o split(SubSeq(s, d + 1, Len(s)))

\* lines 84-104: self.tables[table["name"]] = table
parse_tables(data) ==
    [n \in {data.tables[i].name : i \in DOMAIN data.tables} |->
        TableEntry(data.tables[CHOOSE i \in DOMAIN data.tables :
                                  /\ data.tables[i].name = n
                                  /\ \A j \in DOMAIN data.tables :
                                        data.tables[j].name = n => j <= i].role)]

\* mutant: the first malformed entry ends the loop
RECURSIVE parse_relationships_break(_, _)
parse_relationships_break(relations_list, i) ==
    IF i > Len(relations_list)
    THEN <<>>
    ELSE LET rel == relations_list[i]
             from_info == split(rel.from)
             to_info   == split(rel.to)
             join_type == IF rel.join_type = None THEN "LEFT JOIN"
                          ELSE rel.join_type[1]
         IN  IF Len(from_info) # 2 \/ Len(to_info) # 2
             THEN <<>>
             ELSE <<TableRelationship(from_info[1], from_info[2], to_info[1],
                                      to_info[2], join_type, "")>>
                  \o parse_relationships_break(relations_list, i + 1)

\* _parse_relationships, lines 133-157: the loop from entry i on
RECURSIVE parse_relationships(_, _)
parse_relationships(relations_list, i) ==
    IF i > Len(relations_list)
    THEN <<>>
    ELSE LET rel == relations_list[i]
             from_info == split(rel.from)
             to_info   == split(rel.to)
             join_type == IF rel.join_type = None THEN "LEFT JOIN"
                          ELSE rel.join_type[1]
         IN  IF Len(from_info) # 2 \/ Len(to_info) # 2
             THEN parse_relationships(relations_list, i + 1)
             ELSE <<TableRelationship(from_info[1], from_info[2], to_info[1],
                                      to_info[2], join_type, "")>>
                  \o parse_relationships(relations_list, i + 1)

\* lines 112-120: self.synonyms / self.kpis = schema_data.get(key, {})
parse_dict(entry) == IF entry = None THEN {} ELSE entry[1]

\* SchemaParser(schema_name) after load_star_schema(), lines 45-83; id is
\* the identity of the object
SchemaParser(id, data) ==
    [id |-> id,
     schema_data |-> Some(data),
     tables |-> parse_tables(data),
     relationships |-> parse_relationships(data.relationships, 1),
     synonyms |-> parse_dict(data.synonyms),
     kpis |-> parse_dict(data.kpis)]

\* get_schema_parser(schema_name), lines 376-384: a new object, whose
\* load_star_schema() reads and parses the file
GetSchemaParserCall ==
    /\ schema_file # None
    /\ Len(parsers) < MaxParsers
    /\ parsers' = Append(parsers, SchemaParser(Len(parsers) + 1, schema_file[1]))
    /\ loads' = loads + 1
    /\ UNCHANGED schema_file
    /\ UNCHANGED <<chk_vars, date_vars, retry_vars, query_vars>>
    /\ UNCHANGED <<join_vars, val_vars, gen_vars>>

\* a schema file is in place and get_schema_parser was not called yet
InitLoad ==
    /\ tables = <<>>
    /\ relationships = <<>>
    /\ JoinIdle
    /\ ValIdle
    /\ schema = None
    /\ GenIdle
    /\ CheckIdle /\ DateIdle /\ RetryIdle /\ QueryIdle
    /\ schema_file \in {Some(d) : d \in Documents}
    /\ parsers = <<>>
    /\ loads = 0

NextLoad == GetSchemaParserCall

SpecLoad == InitLoad /\ [][NextLoad]_vars

\* the number of dots of a text
Dots(s) == Cardinality({i \in DOMAIN s : s[i] = Dot})

\* the entries with one dot on each side, in the document's order
WellFormed(rels) ==
    SelectSeq(rels, LAMBDA e : Dots(e.from) = 1 /\ Dots(e.to) = 1)

C23_SingleInstanceSingleLoad ==
    /\ \A i, j \in DOMAIN parsers : parsers[i].id = parsers[j].id
    /\ loads <= 1

-----------------------------------------------------------------------------
\* Direct calls of SchemaParser.validate_sql_columns after the tables of the
\* question were resolved by get_relevant_tables

\* the SQL texts of the calls: a declared and an undeclared column of two
\* tables, an alias, a keyword and a name no schema has as table part
ColumnQueries ==
    {kw_SELECT \o <<" ">> \o ref : ref \in
        {Spelling["orders"] \o <<Dot>> \o Spelling["id"],
         Spelling["orders"] \o <<Dot, "z", "z">>,
         Spelling["dim_store"] \o <<Dot, "z", "z">>,
         <<"o", Dot, "z", "z">>,
         <<"f", "r", "o", "m", Dot, "z", "z">>,
         <<"c", "u", "s", "t", "o", "m", "e", "r", "s", Dot>> \o Spelling["id"]}}

\* a call parser.validate_sql_columns(sql_query): the returned pair, the
\* message given by the references it lists
ValidateSqlColumnsCall ==
    /\ \E q \in ColumnQueries :
          /\ vc_args' = Some(q)
          /\ vc_result' = Some([is_valid |-> validate_sql_columns(q),
                                invalid_columns |-> invalid_columns(q)])
    /\ UNCHANGED <<vs_args, vs_result, summary>>
    /\ UNCHANGED <<load_vars, date_vars, retry_vars, query_vars>>
    /\ UNCHANGED <<join_vars, val_vars, gen_vars>>

NextColumns ==
    \/ GetRelevantTablesCall
    \/ ValidateSqlColumnsCall

SpecColumns == InitSelect /\ [][NextColumns]_vars

\* the tables get_relevant_tables resolved for the question
Resolved == Range(gr_result[1].value)

\* C25: with the tables of the question resolved, validate_sql_columns
\* reports the SQL invalid exactly when it holds a reference table.column
\* whose table part is no skipped keyword, is one of the resolved tables,
\* and whose column that table does not declare; a reference to anything
\* else, a table of the schema that was not resolved included, never makes
\* the SQL invalid.
C25_OnlyResolvedTablesChecked ==
    (gpc = "selected" /\ gr_result[1].kind = "return" /\ vc_args # None) =>
        ( ~vc_result[1].is_valid
            <=> \E ref \in ColumnRefsFrom(vc_args[1], 1) :
                   /\ Upper(ref[1]) \notin skipped_words
                   /\ \E t \in Resolved \cap DOMAIN tables :
                         /\ Spelling[t] = ref[1]
                         /\ \A c \in tables[t].columns : Spelling[c] # ref[2] )

-----------------------------------------------------------------------------
\* extract_and_convert_dates (src/src/date_converter.py).  A text is a
\* sequence of one-character strings.

MaxDateChunks == 3  \* pieces a question text is put together from
MaxPasses == 2      \* applications of the function in a row

\* ALL_MONTHS, lines 9-41: (month name, number); two of its 22 names
ALL_MONTHS ==
    {<< <<"m", "a", "i">>, <<"0", "5">> >>,
     << <<"j", "u", "n", "i">>, <<"0", "6">> >>}

\* the pieces of the question texts: days, month names, a year, the tail of
\* an ISO date, parts of a DD.MM. date, a blank, a letter
DateChunks ==
    {<<"5", " ">>, <<"5", ".", " ">>, <<"1", "5", ".">>, <<"0", "1", ".">>,
     <<"m", "a", "i", " ">>, <<"j", "u", "n", "i", " ">>,
     <<"2", "0", "2", "3">>, <<"-", "0", "1", "-", "1", "5">>,
     <<" ">>, <<"x">>}

\* str.zfill(2)
zfill(s) == IF Len(s) < 2 THEN <<"0">> \o s ELSE s

\* (\d{1,2}) at i, followed by something that is no digit: the end
\* (exclusive) of the group, 0 when it does not match
DayEnd(s, i) ==
    LET e == RunEnd(s, i, Digits) IN IF e - i \in {1, 2} THEN e ELSE 0

\* (\d{4})\b at i: the end (exclusive) of the group, 0 when it does not match
YearEnd(s, i) ==
    LET e == RunEnd(s, i, Digits)
    IN  IF e - i = 4 /\ Boundary(s, e) THEN e ELSE 0

\* (januar|...|december)\s+ at i with re.IGNORECASE: the entries of
\* ALL_MONTHS whose name stands at i, followed by whitespace
MonthsAt(s, i) ==
    {m \in ALL_MONTHS :
        /\ LitAt(Upper(s), i, Upper(m[1]))
        /\ i + Len(m[1]) <= Len(s)
        /\ s[i + Len(m[1])] \in Whitespace}

\* a match: where it ends (exclusive) and what replaces it
Match(end, replacement) == [end |-> end, replacement |-> replacement]

\* pattern1 at i, lines 64-75: \b(\d{1,2})\.?\s+(month)\s+(\d{4})\b
\* replaced by year-month-day
replace_full_date(s, i) ==
    LET d == DayEnd(s, i) IN
    IF ~Boundary(s, i) \/ d = 0 THEN None
    ELSE LET a == IF d <= Len(s) /\ s[d] = Dot THEN d + 1 ELSE d
             b == SkipWs(s, a)
             ms == MonthsAt(s, b)
         IN  IF b = a \/ ms = {} THEN None
             ELSE LET m == CHOOSE x \in ms : TRUE
                      c == SkipWs(s, b + Len(m[1]))
                      y == YearEnd(s, c)
                  IN  IF y = 0 THEN None
                      ELSE Some(Match(y, SubSeq(s, c, y - 1) \o <<"-">> \o m[2]
                                         \o <<"-">> \o zfill(SubSeq(s, i, d - 1))))

\* pattern2 at i, lines 80-90: \b(month)\s+(\d{4})\b replaced by year-month
replace_month_year(s, i) ==
    LET ms == MonthsAt(s, i) IN
    IF ~Boundary(s, i) \/ ms = {} THEN None
    ELSE LET m == CHOOSE x \in ms : TRUE
             c == SkipWs(s, i + Len(m[1]))
             y == YearEnd(s, c)
         IN  IF y = 0 THEN None
             ELSE Some(Match(y, SubSeq(s, c, y - 1) \o <<"-">> \o m[2]))

\* pattern3 at i, lines 95-103: \b(\d{1,2})\.(\d{1,2})\.(\d{4})\b replaced
\* by year-month-day
replace_german_format(s, i) ==
    LET d == DayEnd(s, i) IN
    IF ~Boundary(s, i) \/ d = 0 \/ d > Len(s) THEN None
    ELSE IF s[d] # Dot THEN None
    ELSE LET m == DayEnd(s, d + 1) IN
         IF m = 0 \/ m > Len(s) THEN None
         ELSE IF s[m] # Dot THEN None
         ELSE LET y == YearEnd(s, m + 1) IN
              IF y = 0 THEN None
              ELSE Some(Match(y, SubSeq(s, m + 1, y - 1) \o <<"-">>
                                 \o zfill(SubSeq(s, d + 1, m - 1)) \o <<"-">>
                                 \o zfill(SubSeq(s, i, d - 1))))

\* the match of pattern p at position i of s
MatchAt(p, s, i) ==
    CASE p = 1 -> replace_full_date(s, i)
      [] p = 2 -> replace_month_year(s, i)
      [] p = 3 -> replace_german_format(s, i)

\* re.sub(pattern, replace, text) from position i on: the matches are taken
\* from the left, without overlap, each on the text as it was passed in
RECURSIVE sub(_, _, _)
sub(p, s, i) ==
    IF i > Len(s) THEN <<>>
    ELSE LET m == MatchAt(p, s, i)
         IN  IF m = None THEN <<s[i]>> \o sub(p, s, i + 1)
             ELSE m[1].replacement \o sub(p, s, m[1].end)

\* extract_and_convert_dates(text), lines 44-110
extract_and_convert_dates(t) == sub(3, sub(2, sub(1, t, 1), 1), 1)

\* a call extract_and_convert_dates(text) on a question text
ConvertCall ==
    /\ passes = 0
    /\ \E chunks \in SeqsUpTo(DateChunks, MaxDateChunks) :
          /\ original_text' = Flatten(chunks)
          /\ converted' = Some(extract_and_convert_dates(Flatten(chunks)))
    /\ passes' = 1
    /\ UNCHANGED <<chk_vars, load_vars, retry_vars, query_vars>>
    /\ UNCHANGED <<join_vars, val_vars, gen_vars>>

\* a further call on the text the previous call returned
ConvertAgain ==
    /\ passes >= 1
    /\ passes < MaxPasses
    /\ original_text' = converted[1]
    /\ converted' = Some(extract_and_convert_dates(converted[1]))
    /\ passes' = passes + 1
    /\ UNCHANGED <<chk_vars, load_vars, retry_vars, query_vars>>
    /\ UNCHANGED <<join_vars, val_vars, gen_vars>>

NextDates ==
    \/ ConvertCall
    \/ ConvertAgain

\* no text was converted yet; the function reads no schema and no validator
InitDates ==
    /\ tables = [t \in TableNames |-> TableEntry("dimension")]
    /\ relationships = <<>>
    /\ JoinIdle
    /\ ValIdle
    /\ schema = None
    /\ GenIdle
    /\ ExtIdle

SpecDates == InitDates /\ [][NextDates]_vars

\* an ISO date YYYY-MM-DD stands at position i of s, as a word of its own
IsoDateAt(s, i) ==
    /\ i + 9 <= Len(s)
    /\ Boundary(s, i) /\ Boundary(s, i + 10)
    /\ \A k \in {0, 1, 2, 3, 5, 6, 8, 9} : s[i + k] \in Digits
    /\ s[i + 4] = "-" /\ s[i + 7] = "-"

\* C24: applying extract_and_convert_dates to its own output changes
\* nothing, for every text; and every date that stands in ISO form in the
\* text passed in stands in the returned text.
C24_DateNormalizationIdempotent ==
    /\ passes >= 2 => converted[1] = original_text
    /\ passes >= 1 =>
          \A i \in DOMAIN original_text :
              IsoDateAt(original_text, i)
                 => \E j \in DOMAIN converted[1] :
                        LitAt(converted[1], j, SubSeq(original_text, i, i + 9))

-----------------------------------------------------------------------------
\* generate_sql_with_validation (src/src/llm_sql_generator.py, lines 261-301)
\* around SQLValidator.validate.  Confidence scores are in hundredths.  The
\* locals sql_query, validation_passed and confidence_score of the running
\* attempt are the fields of the last entry of attempts.

MaxRetries == 2     \* the argument max_retries of the calls

\* the SQL texts the completions answer with: one the validator accepts,
\* one it rejects
RetrySqls == {kw_SELECT \o <<" ", "x">>, kw_DROP \o <<" ", "x">>}

\* what assess_sql_confidence returns: a score clamped to [0, 1]; 0.5 on
\* any exception (lines 166-195)
Confidences == {0, 50, 70, 100}

\* the confidence_threshold of the calls: the default of line 261
Thresholds == {70}

Attempt(q, passed, score) ==
    [sql_query |-> q, validation_passed |-> passed, confidence_score |-> score]

\* the last entry of attempts with one field replaced
WithPassed(as, passed) ==
    [as EXCEPT ![Len(as)].validation_passed = Some(passed)]
WithScore(as, score) ==
    [as EXCEPT ![Len(as)].confidence_score = Some(score)]

\* generate_sql_with_validation(user_question, validator, rossmann_schema,
\* max_retries, confidence_threshold): entry, line 264
RetryCall ==
    /\ rpc = "idle"
    /\ max_retries' \in 0..MaxRetries
    /\ confidence_threshold' \in Thresholds
    /\ attempt' = 0
    /\ rpc' = "generate"
    /\ UNCHANGED <<attempts, previous_sql, validation_errors, rresult>>
    /\ UNCHANGED <<chk_vars, load_vars, date_vars, query_vars>>
    /\ UNCHANGED <<join_vars, val_vars, gen_vars>>

\* lines 265-269: generate_sql_query on the first attempt, which passes an
\* exception of the completion on (lines 158-160); later
\* provide_validation_feedback, which returns some SQL in every case
RetryGenerate ==
    /\ rpc = "generate"
    /\ \/ /\ attempt = 0
          /\ calls' = Append(calls, "generate_sql_query")
          /\ \/ \E q \in RetrySqls :
                   /\ attempts' = Append(attempts, Attempt(q, None, None))
                   /\ rpc' = "validate"
                   /\ UNCHANGED rresult
             \/ /\ rresult' = Some(Raise("Exception", "SQL generation failed", {}))
                /\ rpc' = "done"
                /\ UNCHANGED attempts
       \/ /\ attempt > 0
          /\ calls' = Append(calls, "provide_validation_feedback")
          /\ \E q \in RetrySqls :
                attempts' = Append(attempts, Attempt(q, None, None))
          /\ rpc' = "validate"
          /\ UNCHANGED rresult
    /\ UNCHANGED <<max_retries, confidence_threshold, attempt, previous_sql,
                   validation_errors>>
    /\ UNCHANGED <<gpc, gr_args, llm_tables, gr_result, relevant_tables,
                   response, sql_query, gresult>>
    /\ UNCHANGED <<chk_vars, load_vars, date_vars, query_vars>>
    /\ UNCHANGED <<join_vars, val_vars>>

\* line 272: validation_result = validator.validate(sql_query), the call
RetryValidate ==
    /\ rpc = "validate"
    /\ vpc = "idle"
    /\ calls' = Append(calls, "validate")
    /\ sql' = attempts[Len(attempts)].sql_query
    /\ errors' = <<>>
    /\ vpc' = "forbidden"
    /\ rpc' = "validating"
    /\ UNCHANGED <<vresult, schema>>
    /\ UNCHANGED <<max_retries, confidence_threshold, attempt, attempts,
                   previous_sql, validation_errors, rresult>>
    /\ UNCHANGED <<gpc, gr_args, llm_tables, gr_result, relevant_tables,
                   response, sql_query, gresult>>
    /\ UNCHANGED <<chk_vars, load_vars, date_vars, query_vars>>
    /\ UNCHANGED join_vars

\* lines 272-284: validate has returned; on a failure retry while attempts
\* remain, else return the last SQL with confidence 0.0
RetryValidated ==
    /\ rpc = "validating"
    /\ vpc = "done"
    /\ LET validation_result == vresult[1]
           q == attempts[Len(attempts)].sql_query
       IN  /\ attempts' = WithPassed(attempts, validation_result.ok)
           /\ IF ~validation_result.ok
              THEN IF attempt < max_retries
                   THEN /\ previous_sql' = Some(q)
                        /\ validation_errors' = Some(validation_result.error_message)
                        /\ attempt' = attempt + 1
                        /\ rpc' = "generate"
                        /\ UNCHANGED rresult
                   ELSE /\ rresult' = Some(Return(<<q, 0, FALSE>>))
                        /\ rpc' = "done"
                        /\ UNCHANGED <<previous_sql, validation_errors, attempt>>
              ELSE /\ rpc' = "assess"
                   /\ UNCHANGED <<previous_sql, validation_errors, attempt,
                                  rresult>>
    /\ vpc' = "idle"
    /\ sql' = <<>>
    /\ errors' = <<>>
    /\ vresult' = None
    /\ UNCHANGED schema
    /\ UNCHANGED <<max_retries, confidence_threshold>>
    /\ UNCHANGED <<chk_vars, load_vars, date_vars, query_vars>>
    /\ UNCHANGED <<join_vars, gen_vars>>

\* mutant: a low score on the last attempt is returned as a failure
RetryAssessStrict ==
    /\ rpc = "assess"
    /\ calls' = Append(calls, "assess_sql_confidence")
    /\ \E confidence_score \in Confidences :
          LET q == attempts[Len(attempts)].sql_query
          IN  /\ attempts' = WithScore(attempts, confidence_score)
              /\ IF confidence_score >= confidence_threshold
                 THEN /\ rresult' = Some(Return(<<q, confidence_score, TRUE>>))
                      /\ rpc' = "done"
                      /\ UNCHANGED <<previous_sql, validation_errors, attempt>>
                 ELSE IF attempt < max_retries
                 THEN /\ previous_sql' = Some(q)
                      /\ validation_errors' = Some(<<"Low confidence score", confidence_score>>)
                      /\ attempt' = attempt + 1
                      /\ rpc' = "generate"
                      /\ UNCHANGED rresult
                 ELSE /\ rresult' = Some(Return(<<q, 0, FALSE>>))
                      /\ rpc' = "done"
                      /\ UNCHANGED <<previous_sql, validation_errors, attempt>>
    /\ UNCHANGED <<max_retries, confidence_threshold>>
    /\ UNCHANGED <<gpc, gr_args, llm_tables, gr_result, relevant_tables,
                   response, sql_query, gresult>>
    /\ UNCHANGED <<chk_vars, load_vars, date_vars, query_vars>>
    /\ UNCHANGED <<join_vars, val_vars>>

\* lines 286-299: assess_sql_confidence, then return when the score reaches
\* the threshold or no attempt remains, else retry
RetryAssess ==
    /\ rpc = "assess"
    /\ calls' = Append(calls, "assess_sql_confidence")
    /\ \E confidence_score \in Confidences :
          LET q == attempts[Len(attempts)].sql_query
          IN  /\ attempts' = WithScore(attempts, confidence_score)
              /\ IF confidence_score >= confidence_threshold
                 THEN /\ rresult' = Some(Return(<<q, confidence_score, TRUE>>))
                      /\ rpc' = "done"
                      /\ UNCHANGED <<previous_sql, validation_errors, attempt>>
                 ELSE IF attempt < max_retries
                 THEN /\ previous_sql' = Some(q)
                      /\ validation_errors' = Some(<<"Low confidence score", confidence_score>>)
                      /\ attempt' = attempt + 1
                      /\ rpc' = "generate"
                      /\ UNCHANGED rresult
                 ELSE /\ rresult' = Some(Return(<<q, confidence_score, TRUE>>))
                      /\ rpc' = "done"
                      /\ UNCHANGED <<previous_sql, validation_errors, attempt>>
    /\ UNCHANGED <<max_retries, confidence_threshold>>
    /\ UNCHANGED <<gpc, gr_args, llm_tables, gr_result, relevant_tables,
                   response, sql_query, gresult>>
    /\ UNCHANGED <<chk_vars, load_vars, date_vars, query_vars>>
    /\ UNCHANGED <<join_vars, val_vars>>

\* a validator and no call in progress
InitRetry ==
    /\ tables = [t \in TableNames |-> TableEntry("dimension")]
    /\ relationships = <<>>
    /\ JoinIdle
    /\ ValIdle
    /\ schema = None
    /\ GenIdle
    /\ ExtIdle

NextRetry ==
    \/ RetryCall
    \/ RetryGenerate
    \/ RetryValidate
    \/ CheckForbidden
    \/ CheckDangerous
    \/ CheckFunctions
    \/ CheckSyntax
    \/ ValidateReturn
    \/ RetryValidated
    \/ RetryAssess

SpecRetry == InitRetry /\ [][NextRetry]_vars

\* every statement of the function and of the validator is executed in
\* turn, and every call of a collaborator returns or raises
SpecRetryFair == SpecRetry /\ WF_vars(NextRetry)

\* how often the collaborator c was called
CountOf(c) == Cardinality({i \in DOMAIN calls : calls[i] = c})

LastAttempt == attempts[Len(attempts)]

\* the call has returned a triple (sql_query, confidence, validation_passed)
RetryReturned == rpc = "done" /\ rresult[1].kind = "return"

\* what holds of a call at every moment and of its returned triple
RetryContract ==
    /\ Len(attempts) <= max_retries + 1
    /\ CountOf("generate_sql_query") + CountOf("provide_validation_feedback")
          <= max_retries + 1
    /\ CountOf("validate")
          = IF rpc = "validate" THEN Len(attempts) - 1 ELSE Len(attempts)
    /\ \A k \in 1..(Len(attempts) - 1) :
          attempts[k].validation_passed = Some(TRUE)
             => attempts[k].confidence_score[1] < confidence_threshold
    /\ RetryReturned =>
          LET r == rresult[1].value
          IN  /\ r[1] = LastAttempt.sql_query
              /\ r[3] <=> (LastAttempt.validation_passed = Some(TRUE))
              /\ (r[2] = 0 /\ ~r[3])
                    => /\ Len(attempts) = max_retries + 1
                       /\ LastAttempt.validation_passed = Some(FALSE)
              /\ (r[3] /\ r[2] < confidence_threshold)
                    => Len(attempts) = max_retries + 1

\* C27: a call of generate_sql_with_validation with max_retries = n >= 0
\* comes to an end, after at most n + 1 generations (the first by
\* generate_sql_query, the others by provide_validation_feedback) and one
\* run of the validator per generated SQL; the returned validation_passed is
\* True exactly when the returned SQL, that of the last attempt, passed the
\* validator; (SQL, 0.0, False) is returned only after attempt n + 1 failed
\* validation; and a validated SQL is followed by another attempt only when
\* its confidence was below the threshold and an attempt remained.
C27_RetryLoopBoundedAndFaithful ==
    /\ []RetryContract
    /\ (rpc = "generate") ~> (rpc = "done")

\* all n + 1 = 3 attempts were made and the last one failed validation
C27_Witness ==
    /\ rpc = "done"
    /\ max_retries = 2
    /\ Len(attempts) = 3
    /\ rresult = Some(Return(<<kw_DROP \o <<" ", "x">>, 0, FALSE>>))
    /\ attempts[1].validation_passed = Some(TRUE)

\* C30: generate_sql_with_validation returns validation_passed = False only
\* when no attempt of the call produced SQL that passed the validator.
C30_ValidatedSqlNeverLost ==
    (RetryReturned /\ ~rresult[1].value[3])
        => \A k \in DOMAIN attempts :
              attempts[k].validation_passed # Some(TRUE)

-----------------------------------------------------------------------------
\* validate_and_retry (src/src/llm_query_selector.py, lines 224-283).  A
\* prompt is a sequence of pieces of text; the prompts of the callers are
\* sequences of characters.

MaxQueryRetries == 3    \* the argument max_retries of the calls

\* the prompts of the calls: empty, blank, and two prompts with a text
PromptArgs == {<<>>, <<" ">>, <<"q">>, <<" ", "q">>}

\* what one attempt can come to: call_llm raises RuntimeError (lines
\* 156-158), parse_response raises RuntimeError (lines 186-195),
\* validate_llm_response raises ValueError (lines 214-221), or the validated
\* mapping is returned
QueryOutcome(kind, value) == [kind |-> kind, value |-> value]
QueryOutcomes ==
    {QueryOutcome("error", "LLM call failed"),
     QueryOutcome("error", "No JSON object found in LLM response."),
     QueryOutcome("error", "Invalid LLM response"),
     QueryOutcome("validated", "mapping_a"),
     QueryOutcome("validated", "mapping_b")}

\* lines 269-273: the text appended to the original prompt for a retry
Feedback(e) ==
    <<"\n\nYour previous response could not be validated.\nReason: ", e,
      "\nPlease respond with valid JSON in this format:\n",
      "{\"query_key\": \"...\", \"params\": {\"...\"}}">>

\* lines 245-251: the checks of the arguments, then the entry of the loop
QueryCall ==
    /\ qpc = "idle"
    /\ \E p \in PromptArgs, n \in 0..MaxQueryRetries :
          /\ q_args' = Some([prompt |-> p, max_retries |-> n])
          /\ prompt' = p
          /\ IF p = <<>> \/ Strip(p) = <<>>
             THEN /\ qresult' = Some(Raise("ValueError", "prompt cannot be empty", {}))
                  /\ qpc' = "done"
                  /\ q_attempt' = 0
             ELSE IF n < 1
             THEN /\ qresult' = Some(Raise("ValueError", "max_retries must be at least 1", {}))
                  /\ qpc' = "done"
                  /\ q_attempt' = 0
             ELSE /\ qresult' = None
                  /\ qpc' = "attempt"
                  /\ q_attempt' = 1
    /\ UNCHANGED <<last_error, llm_calls>>
    /\ UNCHANGED <<chk_vars, load_vars, date_vars, retry_vars>>
    /\ UNCHANGED <<join_vars, val_vars, gen_vars>>

\* mutant: the feedback is appended to the prompt of the failed attempt
QueryAttemptAccumulating ==
    /\ qpc = "attempt"
    /\ \E outcome \in QueryOutcomes :
          /\ llm_calls' = Append(llm_calls, [prompt |-> prompt, outcome |-> outcome])
          /\ IF outcome.kind = "validated"
             THEN /\ qresult' = Some(Return(outcome.value))
                  /\ qpc' = "done"
                  /\ UNCHANGED <<last_error, prompt, q_attempt>>
             ELSE /\ last_error' = Some(outcome.value)
                  /\ IF q_attempt < q_args[1].max_retries
                     THEN /\ prompt' = prompt \o Feedback(outcome.value)
                          /\ q_attempt' = q_attempt + 1
                          /\ UNCHANGED <<qresult, qpc>>
                     ELSE /\ qresult' = Some(Raise("RuntimeError",
                                                   "LLM failed after {max_retries} attempts.\nLast error: {last_error}",
                                                   outcome.value))
                          /\ qpc' = "done"
                          /\ UNCHANGED <<prompt, q_attempt>>
    /\ UNCHANGED q_args
    /\ UNCHANGED <<chk_vars, load_vars, date_vars, retry_vars>>
    /\ UNCHANGED <<join_vars, val_vars, gen_vars>>

\* lines 253-283: one pass of the loop; after the last failed attempt the
\* loop ends and RuntimeError is raised from last_error
QueryAttempt ==
    /\ qpc = "attempt"
    /\ \E outcome \in QueryOutcomes :
          /\ llm_calls' = Append(llm_calls, [prompt |-> prompt, outcome |-> outcome])
          /\ IF outcome.kind = "validated"
             THEN /\ qresult' = Some(Return(outcome.value))
                  /\ qpc' = "done"
                  /\ UNCHANGED <<last_error, prompt, q_attempt>>
             ELSE /\ last_error' = Some(outcome.value)
                  /\ IF q_attempt < q_args[1].max_retries
                     THEN /\ prompt' = q_args[1].prompt \o Feedback(outcome.value)
                          /\ q_attempt' = q_attempt + 1
                          /\ UNCHANGED <<qresult, qpc>>
                     ELSE /\ qresult' = Some(Raise("RuntimeError",
                                                   "LLM failed after {max_retries} attempts.\nLast error: {last_error}",
                                                   outcome.value))
                          /\ qpc' = "done"
                          /\ UNCHANGED <<prompt, q_attempt>>
    /\ UNCHANGED q_args
    /\ UNCHANGED <<chk_vars, load_vars, date_vars, retry_vars>>
    /\ UNCHANGED <<join_vars, val_vars, gen_vars>>

\* no call of validate_and_retry is in progress
InitQuery ==
    /\ tables = [t \in TableNames |-> TableEntry("dimension")]
    /\ relationships = <<>>
    /\ JoinIdle
    /\ ValIdle
    /\ schema = None
    /\ GenIdle
    /\ ExtIdle

NextQuery ==
    \/ QueryCall
    \/ QueryAttempt

SpecQuery == InitQuery /\ [][NextQuery]_vars

\* C28: validate_and_retry raises ValueError, before any LLM call, for a
\* prompt that is empty or blank and for max_retries < 1; otherwise it calls
\* the LLM at most max_retries times, no more once a response has parsed and
\* validated, and returns that response; it raises RuntimeError with the
\* error of the last attempt exactly after max_retries failed attempts; the
\* first call sends the original prompt and every later call the original
\* prompt followed by the feedback on the error of the call before it.
C28_BoundedRetriesFreshFeedback ==
    q_args # None =>
        LET original_prompt == q_args[1].prompt
            n == q_args[1].max_retries
            bad == (\A i \in DOMAIN original_prompt :
                        original_prompt[i] \in Whitespace) \/ n < 1
            failed(k) == llm_calls[k].outcome.kind = "error"
        IN  /\ bad => /\ qpc = "done"
                      /\ qresult[1].kind = "raise"
                      /\ qresult[1].error = "ValueError"
                      /\ llm_calls = <<>>
            /\ Len(llm_calls) <= n \/ bad
            /\ \A k \in 1..(Len(llm_calls) - 1) : failed(k)
            /\ \A k \in DOMAIN llm_calls :
                  llm_calls[k].prompt
                     = IF k = 1 THEN original_prompt
                       ELSE original_prompt
                               \o Feedback(llm_calls[k - 1].outcome.value)
            /\ (qpc = "done" /\ ~bad) =>
                  LET last == llm_calls[Len(llm_calls)].outcome
                  IN  IF failed(Len(llm_calls))
                      THEN /\ Len(llm_calls) = n
                           /\ qresult[1].kind = "raise"
                           /\ qresult[1].error = "RuntimeError"
                           /\ qresult[1].arg = last.value
                      ELSE qresult[1] = Return(last.value)
            /\ (qpc = "attempt" /\ llm_calls # <<>>)
                  => failed(Len(llm_calls)) /\ Len(llm_calls) < n

\* three attempts failed with different errors and RuntimeError was raised
C28_Witness ==
    /\ qpc = "done"
    /\ Len(llm_calls) = 3
    /\ qresult[1].kind = "raise"
    /\ llm_calls[1].outcome.value # llm_calls[2].outcome.value
    /\ llm_calls[3].prompt
          = q_args[1].prompt \o Feedback(llm_calls[2].outcome.value)

-----------------------------------------------------------------------------
\* Sequences of calls on one loaded SchemaParser and one SQLValidator, one
\* call at a time: find_join_path, _find_relationship,
\* validate_selected_tables, validate_sql_columns, get_schema_summary
\* (src/src/schema_parser.py) and validate (src/src/sql_validator.py)

MaxCoreCalls == 3   \* calls made one after the other
MaxCoreReq == 2     \* tables per find_join_path request of these calls

\* the relationship lists of the loaded schemas: declarations from and to
\* the fact table, one between two dimensions, none
CoreSchemas ==
    {<<TableRelationship("fact_sales", "key", "orders", "id", "LEFT JOIN", ""),
       TableRelationship("dim_store", "key", "fact_sales", "id", "LEFT JOIN", "")>>,
     <<TableRelationship("orders", "key", "dim_store", "id", "INNER JOIN", "")>>,
     <<>>}

\* get_schema_summary(), lines 311-330: per table its role and the names of
\* its columns
get_schema_summary ==
    [t \in DOMAIN tables |->
        [role |-> tables[t].role, columns |-> tables[t].columns]]

\* no call is in progress and no result is held by the caller
CoreIdle ==
    /\ pc = "idle"
    /\ vpc = "idle"
    /\ vs_args = None
    /\ vc_args = None
    /\ summary = None

\* the caller can make a further call
CoreReady == CoreIdle /\ Len(calls) < MaxCoreCalls

CoreFindJoinPath ==
    /\ CoreReady
    /\ FindJoinPathOn(SeqsUpTo(TableNames, MaxCoreReq))
    /\ UNCHANGED <<val_vars, gen_vars, ext_vars>>

CoreFindRelationship == CoreReady /\ FindRelationshipCall

CoreValidateSelectedTables == CoreReady /\ ValidateSelectedTablesCall

CoreValidateSqlColumns == CoreReady /\ ValidateSqlColumnsCall

CoreSchemaSummary ==
    /\ CoreReady
    /\ summary' = Some(get_schema_summary)
    /\ UNCHANGED <<vs_args, vs_result, vc_args, vc_result>>
    /\ UNCHANGED <<load_vars, date_vars, retry_vars, query_vars>>
    /\ UNCHANGED <<join_vars, val_vars, gen_vars>>

CoreValidate == CoreReady /\ ValidateOn(RetrySqls)

\* the call that has returned
CompletedCall ==
    CASE pc = "done" -> "find_join_path"
      [] pc = "rel_done" -> "_find_relationship"
      [] vpc = "done" -> "validate"
      [] vs_args # None -> "validate_selected_tables"
      [] vc_args # None -> "validate_sql_columns"
      [] summary # None -> "get_schema_summary"

\* the call has returned and the caller lets go of its result: the locals
\* of the call are gone, the instances stay
CoreReturn ==
    /\ \/ pc \in {"done", "rel_done"}
       \/ vpc = "done"
       \/ vs_args # None
       \/ vc_args # None
       \/ summary # None
    /\ calls' = Append(calls, CompletedCall)
    /\ pc' = "idle"
    /\ required_tables' = <<>>
    /\ remaining_tables' = <<>>
    /\ connected_tables' = {}
    /\ join_path' = JoinPath(<<>>, <<>>)
    /\ found_connection' = FALSE
    /\ idx' = 0
    /\ result' = None
    /\ fr_args' = None
    /\ fr_result' = None
    /\ vpc' = "idle"
    /\ sql' = <<>>
    /\ errors' = <<>>
    /\ vresult' = None
    /\ vs_args' = None
    /\ vs_result' = None
    /\ vc_args' = None
    /\ vc_result' = None
    /\ summary' = None
    /\ UNCHANGED <<tables, relationships, sql_lines, schema>>
    /\ UNCHANGED <<gpc, gr_args, llm_tables, gr_result, relevant_tables,
                   response, sql_query, gresult>>
    /\ UNCHANGED <<load_vars, date_vars, retry_vars, query_vars>>

\* State after load_star_schema() and SQLValidator(): a fact table and two
\* dimensions
InitCore ==
    /\ tables = [t \in TableNames |->
                   TableEntry(IF t = "fact_sales" THEN "fact" ELSE "dimension")]
    /\ relationships \in CoreSchemas
    /\ JoinIdle
    /\ ValIdle
    /\ schema = None
    /\ GenIdle
    /\ ExtIdle

NextCore ==
    \/ CoreFindJoinPath
    \/ WhileTest
    \/ ForStep
    \/ ForExhausted
    \/ AfterFor
    \/ CoreFindRelationship
    \/ CoreValidateSelectedTables
    \/ CoreValidateSqlColumns
    \/ CoreSchemaSummary
    \/ CoreValidate
    \/ CheckForbidden
    \/ CheckDangerous
    \/ CheckFunctions
    \/ CheckSyntax
    \/ ValidateReturn
    \/ CoreReturn

SpecCore == InitCore /\ [][NextCore]_vars

\* find_join_path on the instance as it stands, computed in one piece:
\* attach, again and again, the first remaining table that has a
\* relationship to a connected one
RECURSIVE FreshAttach(_, _, _)
FreshAttach(remaining, connected, jp) ==
    IF remaining = <<>> THEN Some(jp)
    ELSE LET hits == {i \in DOMAIN remaining :
                         find_relationship(connected, remaining[i]) # None}
         IN  IF hits = {} THEN None
             ELSE LET t == remaining[SetMin(hits)]
                  IN  FreshAttach(RemoveFirst(remaining, t), connected \cup {t},
                                  JoinPath(Append(jp.tables, t),
                                           Append(jp.relationships,
                                                  find_relationship(connected, t)[1])))

FreshJoinPath(req) ==
    IF req = <<>> THEN None
    ELSE LET fact == find_fact_table(req)
             start == IF fact # None THEN fact[1] ELSE req[1]
         IN  FreshAttach(Without(req, start), {start}, JoinPath(<<start>>, <<>>))

\* no step changes the instances, nor the arguments of the running call
CoreFrame ==
    /\ tables' = tables
    /\ relationships' = relationships
    /\ schema' = schema
    /\ (pc # "idle" /\ pc' # "idle")
          => required_tables' = required_tables /\ fr_args' = fr_args
    /\ (vpc # "idle" /\ vpc' # "idle") => sql' = sql

\* whatever was called before, a returned result is the one the instance as
\* loaded gives for the arguments
ResultsAsFresh ==
    /\ pc = "done" => result = FreshJoinPath(required_tables)
    /\ pc = "rel_done"
          => fr_result = find_relationship(fr_args[1].connected, fr_args[1].target)
    /\ vpc = "done" => (vresult[1].ok <=> FailingEntries(sql) = {})
    /\ vs_args # None => vs_result = Some(validate_selected_tables(vs_args[1]))
    /\ vc_args # None
          => vc_result[1].invalid_columns = invalid_columns(vc_args[1])
    /\ summary # None => summary = Some(get_schema_summary)
    /\ relationships \in CoreSchemas

\* C26: the calls of the core (find_join_path, _find_relationship,
\* validate_selected_tables, validate_sql_columns, get_schema_summary,
\* validate) leave the parsed tables, the declared relationships with their
\* direction and join type, the validator's schema and the arguments of the
\* running call as they were, so that after any sequence of calls a call
\* returns what it returns on the instance as loaded.
C26_CallsLeaveInstancesUnchanged ==
    /\ [][CoreFrame]_vars
    /\ []ResultsAsFresh

\* after two earlier calls, a join path with an edge followed against its
\* declared direction was returned
C26_Witness ==
    /\ Len(calls) = 2
    /\ pc = "done" /\ result # None
    /\ \E k \in DOMAIN result[1].relationships :
          result[1].relationships[k] \notin Range(relationships)

====
